---------------------------- MODULE Spec2Model ----------------------------
(***************************************************************************)
(* A model of kiko: the BDeck parser (kiko/bdeck.py), the Storm entity     *)
(* (kiko/storm.py), the season aggregation (kiko/season.py) and the        *)
(* utilities they rest on (kiko/utils.py).                                 *)
(*                                                                         *)
(* Conventions                                                             *)
(*  - Python indices are kept 0-based (the cursor i of read_data, the      *)
(*    sample indices of sel_by_bbox); a TLA+ sequence s is read at s[i+1]. *)
(*  - Latitudes and longitudes are kept in tenths of a degree (the unit of *)
(*    the file), so that the code's "/ 10" needs no fractions; thresholds  *)
(*    on degrees are scaled by 10 accordingly.                             *)
(*  - Timestamps are whole hours.  An MJD is kept in hours (MJD * 24), so  *)
(*    int(mjd) is "\div 24".                                               *)
(*  - ACE is kept in units of 1/10000 (wind^2), so that wind^2/10000 needs *)
(*    no fractions.                                                        *)
(*  - A text field that int() is applied to is a record [num, val]: num    *)
(*    says whether int() accepts the text, val is the integer it denotes.  *)
(*  - Strings that the code slices (the basin code, the ATCF id) are       *)
(*    sequences of one-character strings.                                  *)
(*  - A float that Storm.interp computes is a fraction in lowest terms;    *)
(*    the rounding of floating-point arithmetic is not modelled.           *)
(***************************************************************************)
EXTENDS Integers, Sequences, FiniteSets, TLC

VARIABLES
    \* ---- BDeckFile (bdeck.py) ----
    lines,            \* the lines of the file, each the name of its shape in LineShape
    opened,           \* BDeckFile._opened
    fullyread,        \* BDeckFile._fullyread
    formal_advisory,  \* argument of read_data
    tropical_nature,  \* argument of read_data
    i,                \* the cursor of read_data's loop (0-based)
    count,            \* read_data's count: the number of lines readlines() returned
    offset,           \* the position of the file handle, in lines from the start
    idata,            \* BDeckFile.idata: key -> value
    data,             \* BDeckFile.data: key -> list of values
    metadata,         \* BDeckFile.metadata
    pc,               \* where the caller is: closed, opened (no read_data since the
                      \* last other call), reading, done (read_data returned), raised
                      \* (read_data raised), storm, from_bdeck_raised
    exc,              \* the exception that left read_data / from_bdeck, or "none"
    emitted,          \* history of a read_data: the 0-based indices of the lines a record was appended for
    consumed,         \* history of a read_data: the indices of the lines a lookahead read radii from
    mismatched,       \* history of a read_data: the indices of the lines a lookahead found with another timestamp
    asopened,         \* history of a read_data: it began in the state open() leaves a new object in
    \* ---- Storm (storm.py) ----
    storm,            \* the Storm under study, or NoStorm
    origin,           \* history: for each sample of storm, its index in the original Storm
    source,           \* the Storm the last operation was applied to, as the operation left it
    last,             \* the last Storm operation: its name, its inputs and its outcome
    cache,            \* the cached properties of storm computed so far
    spc,              \* where the Storm machine is
    \* ---- find_overlaps / SeasonDataset (utils.py, season.py) ----
    season,           \* the storms of the season dataset
    opc,              \* where the season machine is
    call,             \* the arguments of the running call
    events,           \* find_overlaps: the sorted events
    k,                \* find_overlaps / daily_ace: the loop position
    active,           \* find_overlaps: the active set
    overlaps,         \* find_overlaps: the output so far
    prev_time,        \* find_overlaps: prev_time (None: PyNoTime)
    ace,              \* SeasonDataset.daily_ace: the day-of-year array
    result            \* the value the call returned

bdeckVars == <<lines, opened, fullyread, formal_advisory, tropical_nature, i,
               count, offset, idata, data, metadata, pc, exc, emitted, consumed,
               mismatched, asopened>>
stormVars == <<storm, origin, source, last, cache, spc>>
seasonVars == <<season, opc, call, events, k, active, overlaps, prev_time, ace, result>>
vars == <<bdeckVars, stormVars, seasonVars>>

(***************************************************************************)
(* Bounds of the model.                                                    *)
(***************************************************************************)
MaxLines == 3
MaxSamples == 3
MaxSelSamples == 4
MaxStorms == 3

(***************************************************************************)
(* Generic helpers: Python values.                                         *)
(***************************************************************************)
None == [some |-> FALSE]
Some(v) == [some |-> TRUE, v |-> v]

EmptyDict == [x \in {} |-> 0]
Put(d, key, v) == (key :> v) @@ d

Num(n) == [num |-> TRUE, val |-> n]
NaN == [num |-> FALSE, val |-> 0]

Range(s) == {s[n] : n \in DOMAIN s}

\* The elements of a set of integers, in increasing order
RECURSIVE Ascending(_)
Ascending(S) ==
    IF S = {} THEN <<>>
    ELSE LET m == CHOOSE x \in S : \A y \in S : x <= y
         IN  <<m>> \o Ascending(S \ {m})

RECURSIVE SumSeq(_)
SumSeq(s) == IF s = <<>> THEN 0 ELSE Head(s) + SumSeq(Tail(s))

(***************************************************************************)
(* Calendar timestamps (datetime.datetime, whole hours).                   *)
(***************************************************************************)
DT(y, m, d, h) == [year |-> y, month |-> m, day |-> d, hour |-> h]

TimeGrid ==
    << DT(2019, 12, 31, 18), DT(2020, 1, 1, 0), DT(2020, 1, 1, 3),
       DT(2020, 1, 1, 6), DT(2020, 2, 29, 12), DT(2020, 3, 1, 0),
       DT(2020, 7, 1, 0), DT(2020, 12, 31, 18), DT(2021, 1, 1, 0) >>

\* calendar.isleap
IsLeap(year) == year % 4 = 0 /\ (year % 100 # 0 \/ year % 400 = 0)

\* The days of month m of year y
DaysInMonth(y, m) ==
    IF m = 2 THEN (IF IsLeap(y) THEN 29 ELSE 28)
    ELSE IF m \in {4, 6, 9, 11} THEN 30 ELSE 31

\* t + datetime.timedelta(hours=h), for h >= 0
RECURSIVE AddHours(_, _)
AddHours(t, h) ==
    IF t.hour + h < 24 THEN [t EXCEPT !.hour = t.hour + h]
    ELSE LET rolls == t.day = DaysInMonth(t.year, t.month)
             ends == rolls /\ t.month = 12
         IN  AddHours([t EXCEPT !.hour = 0,
                                !.day = IF rolls THEN 1 ELSE t.day + 1,
                                !.month = IF ends THEN 1
                                          ELSE IF rolls THEN t.month + 1
                                          ELSE t.month,
                                !.year = IF ends THEN t.year + 1 ELSE t.year],
                      t.hour + h - 24)

(***************************************************************************)
(* kiko/bdeck.py                                                           *)
(***************************************************************************)

\* _safe_int: int(s), or -999 when int() raises ValueError.
SafeInt(s) == IF s.num THEN s.val ELSE -999

\* The category argument of _get_category when it is not given (Python None).
PyNone == "<None>"

\* BDeckFile._get_category
GetCategory(wind, category) ==
    IF category \notin {PyNone, "TY", "HU", "ST", "MH"} THEN category
    ELSE IF wind > 137 THEN "C5"
    ELSE IF wind > 114 THEN "C4"
    ELSE IF wind > 96 THEN "C3"
    ELSE IF wind > 83 THEN "C2"
    ELSE IF wind > 64 THEN "C1"
    ELSE IF wind > 34 THEN "TS"
    ELSE "TD"

(***************************************************************************)
(* The shapes of the physical lines of the files.  A line is given by its  *)
(* segments after line.split(','): nf is len(linesegs); the other fields   *)
(* are the texts of the segments the reader looks at (a segment at an      *)
(* index >= nf does not exist, whatever the record holds for it).          *)
(*   ts    linesegs[2]: id is the place of the timestamp in TimeGrid, ok   *)
(*         says whether strptime('%Y%m%d%H') accepts the text (the text of *)
(*         a timestamp that is not ok has month 13: same hour suffix)      *)
(*   lat   linesegs[6]: mag is the text before the last character, hemi    *)
(*         the last character ("" for an empty segment); lon likewise      *)
(*   rad   linesegs[13:17] of a line of 17 segments or more                *)
(*   eol   the line ends with '\n', which split leaves in the last        *)
(*         segment                                                         *)
(***************************************************************************)
LineShape ==
    LET LongLine ==
            [nf |-> 30, basin |-> <<"W", "P">>, number |-> Num(1),
             ts |-> [id |-> 2, ok |-> TRUE], technum |-> "", techcode |-> "BEST",
             tau |-> Num(0), lat |-> [mag |-> Num(100), hemi |-> "N"],
             lon |-> [mag |-> Num(1500), hemi |-> "E"], wind |-> Num(30),
             pres |-> Num(1000), cat |-> "TD",
             rad |-> <<Num(0), Num(0), Num(0), Num(0)>>,
             lci |-> Num(1008), lci_radius |-> Num(150), rmw |-> Num(30),
             name |-> "KIKO", depth |-> "M", eol |-> TRUE]
    IN
    [ \* "WP, 01, 2019123118,   , BEST,   0, 100N, 1500E,  30": no pressure, no category
      ShortLine |-> [LongLine EXCEPT !.nf = 9, !.ts = [id |-> 1, ok |-> TRUE]],
      \* the same with a pressure and an empty category segment
      PresLine |-> [LongLine EXCEPT !.nf = 12, !.ts = [id |-> 1, ok |-> TRUE],
                                 !.pres = Num(1004), !.cat = ""],
      \* long, 18Z, 30 kt
      LongTD |-> [LongLine EXCEPT !.ts = [id |-> 1, ok |-> TRUE], !.pres = Num(1002)],
      \* long, 00Z, 60 kt West of Greenwich: one lookahead (r50)
      LongTS |-> [LongLine EXCEPT !.wind = Num(60), !.cat = "TS", !.pres = Num(985),
                               !.lon = [mag |-> Num(1100), hemi |-> "W"],
                               !.rad = <<Num(90), Num(90), Num(60), Num(60)>>],
      \* long, 03Z (no formal advisory), 70 kt: two lookaheads (r50, r64)
      LongTY |-> [LongLine EXCEPT !.ts = [id |-> 3, ok |-> TRUE], !.wind = Num(70),
                               !.cat = "TY", !.pres = Num(970),
                               !.rad = <<Num(120), Num(120), Num(90), Num(90)>>],
      \* long, 00Z, 40 kt, extratropical
      LongEX |-> [LongLine EXCEPT !.wind = Num(40), !.cat = "EX", !.pres = Num(990),
                               !.lat = [mag |-> Num(420), hemi |-> "N"],
                               !.rad = <<Num(60), Num(60), Num(30), Num(30)>>],
      \* an empty line: '\n'.split(',') is ['\n']
      EmptyLine |-> [LongLine EXCEPT !.nf = 1, !.basin = <<>>],
      \* "WP, 01, 2020010100": the timestamp is the last segment
      TailLine |-> [LongLine EXCEPT !.nf = 3],
      \* long, 00Z, a timestamp strptime rejects
      BadTimeLine |-> [LongLine EXCEPT !.ts = [id |-> 2, ok |-> FALSE]],
      \* long, 00Z, 40 kt, a wind-radius segment that is not an integer
      BadRadLine |-> [LongLine EXCEPT !.wind = Num(40), !.cat = "TS",
                                   !.rad = <<Num(60), NaN, Num(30), Num(30)>>],
      \* long, 00Z, a wind segment and a storm number that are not integers
      BadWindLine |-> [LongLine EXCEPT !.wind = NaN, !.number = NaN, !.cat = "DB"] ]

\* A line of a file is given by the name of its shape
LineShapes == DOMAIN LineShape

Files == UNION {[1..n -> LineShapes] : n \in 0..MaxLines}

\* lines[i] of the code (0-based)
LineAt(ls, n) == LineShape[ls[n + 1]]

\* _long_format = len(linesegs) > 20
IsLongFormat(L) == L.nf > 20

\* datetime.datetime.strptime(timestr, '%Y%m%d%H')
Strptime(ts) == TimeGrid[ts.id]

\* linesegs[n] is the last segment of a line that ends with '\n': its text
\* ends with the '\n'
EndsLine(L, n) == L.eol /\ L.nf = n + 1

\* linesegs[2][-2:] in ('00', '06', '12', '18'), of the text as split left it
FormalSuffix(L) ==
    ~EndsLine(L, 2) /\ TimeGrid[L.ts.id].hour \in {0, 6, 12, 18}

\* linesegs[13:17]
RadSlice(L) ==
    LET n == IF L.nf >= 17 THEN 4 ELSE IF L.nf > 13 THEN L.nf - 13 ELSE 0
    IN  SubSeq(L.rad, 1, n)

(***************************************************************************)
(* The assignments to idata of one pass of the loop, in the order of the   *)
(* code.  An entry is either an assignment or the exception the code       *)
(* raises at that place; the entries before it have taken effect.          *)
(***************************************************************************)
Asg(key, v) == [key |-> key, ok |-> TRUE, val |-> v, exc |-> "none"]
Raise(e) == [key |-> "", ok |-> FALSE, val |-> 0, exc |-> e]

RECURSIVE ApplyAssigns(_, _)
ApplyAssigns(d, as) ==
    IF as = <<>> THEN [idata |-> d, exc |-> "none"]
    ELSE IF ~Head(as).ok THEN [idata |-> d, exc |-> Head(as).exc]
    ELSE ApplyAssigns(Put(d, Head(as).key, Head(as).val), Tail(as))

\* tuple(map(int, segs))
IntTuple(key, segs) ==
    IF \A n \in DOMAIN segs : segs[n].num
    THEN Asg(key, Some([n \in DOMAIN segs |-> segs[n].val]))
    ELSE Raise("ValueError")

\* _safe_int(linesegs[6][:-1]) / 10, negated for the hemisphere letter neg;
\* in a segment that ends with '\n' (ends), [:-1] keeps the letter, which int()
\* rejects, and [-1] is the '\n'
Coord(c, neg, ends) ==
    IF ends THEN -999
    ELSE IF c.hemi = neg THEN 0 - SafeInt(c.mag) ELSE SafeInt(c.mag)

\* read_data, lines 248-273
HeadAssigns(L) ==
    LET wind == SafeInt(L.wind) IN
    << Asg("_long_format", IsLongFormat(L)),
       Asg("basin", IF EndsLine(L, 0) THEN L.basin \o <<"\n">> ELSE L.basin),
       IF L.nf > 1 THEN Asg("number", SafeInt(L.number)) ELSE Raise("IndexError"),
       IF L.nf > 2 THEN Asg("timestr", L.ts) ELSE Raise("IndexError"),
       IF L.ts.ok THEN Asg("time", Strptime(L.ts)) ELSE Raise("ValueError"),
       IF L.nf > 3 THEN Asg("technum", L.technum) ELSE Raise("IndexError"),
       IF L.nf > 4 THEN Asg("techcode", L.techcode) ELSE Raise("IndexError"),
       IF L.nf > 5 THEN Asg("tau", SafeInt(L.tau)) ELSE Raise("IndexError"),
       IF L.nf > 6 /\ (L.lat.hemi # "" \/ EndsLine(L, 6))
          THEN Asg("lat", Coord(L.lat, "S", EndsLine(L, 6)))
          ELSE Raise("IndexError"),
       IF L.nf > 7 /\ (L.lon.hemi # "" \/ EndsLine(L, 7))
          THEN Asg("lon", Coord(L.lon, "W", EndsLine(L, 7)))
          ELSE Raise("IndexError"),
       IF L.nf > 8 THEN Asg("wind", wind) ELSE Raise("IndexError"),
       Asg("category", GetCategory(wind, PyNone)),
       Asg("raw_category", "") >>
    \o (IF L.nf > 9
        THEN << Asg("pres", SafeInt(L.pres)),
                IF L.nf > 10 THEN Asg("category", GetCategory(wind, L.cat))
                             ELSE Raise("IndexError"),
                Asg("raw_category", L.cat) >>
        ELSE << >>)

\* read_data, lines 274-285
LongAssigns(L) ==
    << Asg("r34", None), Asg("r50", None), Asg("r64", None),
       Asg("lci", SafeInt(L.lci)),
       Asg("lci_radius", SafeInt(L.lci_radius)),
       Asg("rmw", SafeInt(L.rmw)) >>
    \o (IF L.nf > 28
        THEN << Asg("name", L.name), Asg("depth", L.depth) >>
        ELSE << >>)
    \o (IF SafeInt(L.wind) > 34
        THEN << IntTuple("r34", RadSlice(L)) >>
        ELSE << >>)

\* The cursor with which the loop goes on after a lookahead that advanced it
\* to `at` and found a line with another timestamp (`continue`, lines 292-293
\* and 301-302): the advance is not undone, and nothing is added to it.
CursorAfterMismatch(at) == at

(***************************************************************************)
(* One lookahead (lines 286-294, and 295-303): st is the pass so far,      *)
(* [kind, idata, i, exc, used]; kind "go" means the pass goes on.          *)
(***************************************************************************)
LookAhead(ls, st, timestr, key) ==
    LET at == st.i + 1 IN
    IF at = Len(ls) THEN [st EXCEPT !.kind = "break", !.i = at]
    ELSE LET L2 == LineAt(ls, at) IN
         IF L2.nf < 3 THEN [st EXCEPT !.kind = "raise", !.i = at, !.exc = "IndexError"]
         ELSE IF L2.ts # timestr
              THEN [st EXCEPT !.kind = "continue", !.i = CursorAfterMismatch(at),
                              !.missed = at]
         ELSE LET a == ApplyAssigns(st.idata, << IntTuple(key, RadSlice(L2)) >>) IN
              IF a.exc # "none"
              THEN [st EXCEPT !.kind = "raise", !.i = at, !.exc = a.exc]
              ELSE [st EXCEPT !.idata = a.idata, !.i = at,
                              !.used = st.used \cup {at}]

(***************************************************************************)
(* One pass of the while loop of read_data (lines 236-306) at cursor n.    *)
(* kind: "skip" (a filter dropped the line), "emit" (the pass reached      *)
(* _record_all, line 304; i is the cursor after line 306), "break",        *)
(* "continue" (out of a lookahead), "raise".                               *)
(***************************************************************************)
Pass(ls, n, d, formal, tropical) ==
    LET L == LineAt(ls, n)
        st0 == [kind |-> "go", idata |-> d, i |-> n, exc |-> "none",
                used |-> {}, missed |-> -1]
    IN
    IF formal /\ L.nf < 3 THEN [st0 EXCEPT !.kind = "raise", !.exc = "IndexError"]
    ELSE IF formal /\ ~FormalSuffix(L) THEN [st0 EXCEPT !.kind = "skip", !.i = n + 1]
    ELSE IF IsLongFormat(L) /\ tropical /\ L.cat \in {"SS", "SD", "EX"}
         THEN [st0 EXCEPT !.kind = "skip", !.i = n + 1]
    ELSE
    LET a == ApplyAssigns(d, HeadAssigns(L)) IN
    IF a.exc # "none" THEN [st0 EXCEPT !.kind = "raise", !.idata = a.idata, !.exc = a.exc]
    ELSE IF ~IsLongFormat(L) THEN [st0 EXCEPT !.kind = "emit", !.idata = a.idata, !.i = n + 1]
    ELSE
    LET b == ApplyAssigns(a.idata, LongAssigns(L)) IN
    IF b.exc # "none" THEN [st0 EXCEPT !.kind = "raise", !.idata = b.idata, !.exc = b.exc]
    ELSE
    LET wind == SafeInt(L.wind)
        st1 == [st0 EXCEPT !.idata = b.idata]
        st2 == IF wind >= 50 THEN LookAhead(ls, st1, L.ts, "r50") ELSE st1
        st3 == IF st2.kind = "go" /\ wind > 64
               THEN LookAhead(ls, st2, L.ts, "r64") ELSE st2
    IN  IF st3.kind = "go" THEN [st3 EXCEPT !.kind = "emit", !.i = st3.i + 1]
        ELSE st3

\* BDeckFile._record_all
RecordAll(dat, idat, full) ==
    IF full THEN dat
    ELSE [key \in DOMAIN dat \cup DOMAIN idat |->
            IF key \notin DOMAIN idat THEN dat[key]
            ELSE IF key \notin DOMAIN dat THEN <<idat[key]>>
            ELSE Append(dat[key], idat[key])]

\* '{:02d}'.format(n), as a sequence of characters
Digit == <<"0", "1", "2", "3", "4", "5", "6", "7", "8", "9">>
RECURSIVE Digits(_)
Digits(n) == IF n < 10 THEN <<Digit[n + 1]>>
             ELSE Append(Digits(n \div 10), Digit[(n % 10) + 1])
Format02d(n) ==
    IF n < 0 THEN <<"-">> \o Digits(0 - n)
    ELSE IF n < 10 THEN <<"0">> \o Digits(n)
    ELSE Digits(n)

\* BDeckFile._record_meta raises KeyError at line 328: metadata has no
\* 'maxwind' (clear() left it empty)
RecordMetaRaises(meta, full) == ~full /\ "maxwind" \notin DOMAIN meta

\* BDeckFile._record_meta
RecordMeta(meta, idat, full) ==
    IF full THEN meta
    ELSE
    LET m1 == IF idat["wind"] > meta.maxwind
              THEN [meta EXCEPT !.maxwind = idat["wind"],
                                !.peaktime = <<idat["time"]>>,
                                !.name = IF "name" \in DOMAIN idat
                                         THEN idat["name"] ELSE meta.name]
              ELSE IF idat["wind"] = meta.maxwind
              THEN [meta EXCEPT !.peaktime = Append(meta.peaktime, idat["time"])]
              ELSE meta
        m2 == IF "pres" \in DOMAIN idat /\ idat["pres"] < m1.minpres
              THEN [m1 EXCEPT !.minpres = idat["pres"]]
              ELSE m1
    IN  [m2 EXCEPT !.fullcode = idat["basin"] \o Format02d(idat["number"])]

\* BDeckFile.open: the metadata it sets
OpenMetadata ==
    [maxwind |-> 0, minpres |-> 9999, peaktime |-> <<>>, fullcode |-> <<>>,
     name |-> ""]

(***************************************************************************)
(* kiko/utils.py: datetime_to_mjd, in hours (MJD * 24).                    *)
(*   int(365.25 * y) is (1461 * y) \div 4 and int(30.6001 * m) is          *)
(*   (306001 * m) \div 10000 for the y >= 0 and 4 <= m <= 15 of the code;  *)
(*   - 1524.5 and - 2400000.5 add up to - 2401525.                         *)
(***************************************************************************)
datetime_to_mjd(dt) ==
    LET year == IF dt.month <= 2 THEN dt.year - 1 ELSE dt.year
        month == IF dt.month <= 2 THEN dt.month + 12 ELSE dt.month
        a == year \div 100
        b == 2 - a + (a \div 4)
        days == ((1461 * (year + 4716)) \div 4)
                + ((306001 * (month + 1)) \div 10000)
                + dt.day + b - 2401525
    IN  24 * days + dt.hour

\* int(mjd): the day an MJD (in hours) falls on
MjdDay(mjd) == mjd \div 24

(***************************************************************************)
(* kiko/storm.py                                                           *)
(***************************************************************************)
TROPICAL_TYPE == {"TD", "TS", "TY", "HU", "ST"}
NORTHERN_HEMISPHERE_BASIN ==
    {<<"W", "P">>, <<"E", "P">>, <<"C", "P">>, <<"A", "L">>, <<"I", "O">>}

Basins == {"WPAC", "EPAC", "NIO", "SHEM", "ATL"}

\* ensure_utc, of a naive timestamp: pytz.utc.localize keeps the calendar fields
ensure_utc(t) ==
    [year |-> t.year, month |-> t.month, day |-> t.day, hour |-> t.hour,
     tz |-> "UTC"]

is_synoptic(t) == t.hour % 6 = 0

is_tropical(stype) == stype \in TROPICAL_TYPE

\* get_basin; longitude and latitude in tenths of a degree
get_basin(longitude, latitude) ==
    IF latitude < 0 THEN "SHEM"
    ELSE IF longitude < 1000
         THEN IF latitude < 400 THEN "NIO"
              ELSE IF longitude < 700 THEN "ATL" ELSE "WPAC"
    ELSE IF longitude < 1800 THEN "WPAC"
    ELSE IF longitude < 2400 THEN "EPAC"
    ELSE IF longitude > 3000 THEN "ATL"
    ELSE "EPAC"

NoStorm == [none |-> TRUE]

\* Storm.__init__ (heading and speed, which no property here reads, are left out)
StormInit(atcfid, time, longitude, latitude, wind, pressure, storm_type, name) ==
    LET utc == [n \in DOMAIN time |-> ensure_utc(time[n])] IN
    [atcf_id |-> atcfid,
     time |-> utc,
     longitude |-> longitude,
     latitude |-> latitude,
     wind |-> wind,
     pressure |-> pressure,
     storm_type |-> storm_type,
     tropical_flag |-> IF storm_type.some
                       THEN [n \in DOMAIN storm_type.v |-> is_tropical(storm_type.v[n])]
                       ELSE [n \in DOMAIN longitude |-> TRUE],
     name |-> name,
     mjd |-> [n \in DOMAIN utc |-> datetime_to_mjd(utc[n])],
     synoptic_flag |-> [n \in DOMAIN utc |-> is_synoptic(utc[n])],
     flags |-> [continuous |-> TRUE, interpolated |-> FALSE, subset |-> FALSE]]

\* s[s != ''] of numpy: the entries of s that are not ''
RECURSIVE NonEmpty(_)
NonEmpty(s) ==
    IF s = <<>> THEN <<>>
    ELSE IF Head(s) = "" THEN NonEmpty(Tail(s))
    ELSE <<Head(s)>> \o NonEmpty(Tail(s))

\* Storm.from_bdeck, lines 123-130, of the data and metadata of a full read.
\* data['time'] of an empty data raises KeyError.
FromBdeckRaises(dat) == "time" \notin DOMAIN dat
FromBdeckStorm(dat, meta) ==
    LET stype == NonEmpty(dat["raw_category"]) IN
    StormInit(meta.fullcode, dat["time"], dat["lon"], dat["lat"], dat["wind"],
              IF "pres" \in DOMAIN dat THEN Some(dat["pres"]) ELSE None,
              IF stype = <<>> THEN None ELSE Some(stype),
              meta.name)

\* Storm.start_time, Storm.end_time
start_time(s) == s.time[1]
end_time(s) == s.time[Len(s.time)]

\* Storm.start_time_tropical, Storm.end_time_tropical (None: PyNoTime)
PyNoTime == [none |-> TRUE]
RECURSIVE FirstTropical(_, _)
FirstTropical(s, n) ==
    IF n > Len(s.storm_type.v) THEN PyNoTime
    ELSE IF s.storm_type.v[n] \in TROPICAL_TYPE THEN s.time[n]
    ELSE FirstTropical(s, n + 1)
RECURSIVE LastTropical(_, _)
LastTropical(s, n) ==
    IF n < 1 THEN PyNoTime
    ELSE IF s.storm_type.v[n] \in TROPICAL_TYPE THEN s.time[n]
    ELSE LastTropical(s, n - 1)
start_time_tropical(s) ==
    IF ~s.storm_type.some THEN start_time(s) ELSE FirstTropical(s, 1)
end_time_tropical(s) ==
    IF ~s.storm_type.some THEN end_time(s)
    ELSE LastTropical(s, Len(s.storm_type.v))

\* int(text) of a sequence of characters: an optional '-' and decimal digits
DigitValue(c) == CHOOSE d \in 0..9 : Digit[d + 1] = c
RECURSIVE ParseNat(_)
ParseNat(cs) ==
    IF cs = <<>> THEN 0
    ELSE 10 * ParseNat(SubSeq(cs, 1, Len(cs) - 1)) + DigitValue(cs[Len(cs)])
ParseInt(cs) ==
    IF cs # <<>> /\ Head(cs) = "-" THEN 0 - ParseNat(Tail(cs)) ELSE ParseNat(cs)

\* Storm.atcf_basin: atcf_id[:2]
atcf_basin(s) == SubSeq(s.atcf_id, 1, 2)
\* Storm.atcf_number: int(atcf_id[2:])
atcf_number(s) == ParseInt(SubSeq(s.atcf_id, 3, Len(s.atcf_id)))

\* (mutant of CrossoverNumber) numbers 0..3 of a block of 60 count as low
CrossoverNumberUpTo3(number) == number % 60 < 4

\* atcf_season, line 207: the number is one given after the year crossover
CrossoverNumber(number) == number % 60 < 3

\* Storm.atcf_season
atcf_season(s) ==
    LET start_year == start_time(s).year
        end_year == end_time(s).year
    IN  IF start_year = end_year
        THEN IF atcf_basin(s) \in NORTHERN_HEMISPHERE_BASIN THEN start_year
             ELSE IF start_time(s).month >= 7 THEN start_year + 1
             ELSE start_year
        ELSE IF CrossoverNumber(atcf_number(s)) THEN end_year
        ELSE start_year

\* Storm.full_atcf_id: f'{atcf_id}{atcf_season}'
full_atcf_id(s) == s.atcf_id \o Digits(atcf_season(s))

\* BasinACE
BasinACE0 == [wpac |-> 0, epac |-> 0, nio |-> 0, shem |-> 0, atl |-> 0]
\* BasinACE.set
BasinSet(b, basin, value) ==
    CASE basin = "WPAC" -> [b EXCEPT !.wpac = @ + value]
      [] basin = "EPAC" -> [b EXCEPT !.epac = @ + value]
      [] basin = "NIO"  -> [b EXCEPT !.nio = @ + value]
      [] basin = "SHEM" -> [b EXCEPT !.shem = @ + value]
      [] basin = "ATL"  -> [b EXCEPT !.atl = @ + value]
\* BasinACE.get
BasinGet(b, basin) ==
    CASE basin = "WPAC" -> b.wpac
      [] basin = "EPAC" -> b.epac
      [] basin = "NIO"  -> b.nio
      [] basin = "SHEM" -> b.shem
      [] basin = "ATL"  -> b.atl
\* BasinACE.total
BasinTotal(b) == b.wpac + b.epac + b.nio + b.shem + b.atl

\* (mutant of AceFlag) the wind threshold is exclusive
AceFlagAbove35(s, n) ==
    (s.tropical_flag[n] /\ s.synoptic_flag[n]) /\ s.wind[n] > 35

\* daily_ace, lines 177-178: valid_flag and ace_flag at sample n (1-based)
AceFlag(s, n) ==
    (s.tropical_flag[n] /\ s.synoptic_flag[n]) /\ s.wind[n] >= 35

\* daily_ace, lines 179-189: the loop over the flagged samples, from sample n
\* on, into the dict d (day -> BasinACE); ACE in units of 1/10000
RECURSIVE DailyAceFrom(_, _, _)
DailyAceFrom(s, n, d) ==
    IF n > Len(s.wind) THEN d
    ELSE IF ~AceFlag(s, n) THEN DailyAceFrom(s, n + 1, d)
    ELSE LET basin == get_basin(s.longitude[n], s.latitude[n])
             mjd == MjdDay(s.mjd[n])
             cur == IF mjd \in DOMAIN d THEN d[mjd] ELSE BasinACE0
         IN  DailyAceFrom(s, n + 1,
                          Put(d, mjd, BasinSet(cur, basin, s.wind[n] * s.wind[n])))

\* Storm.daily_ace
daily_ace(s) == DailyAceFrom(s, 1, EmptyDict)

\* The sum of f[x] over the x of S
RECURSIVE SumOver(_, _)
SumOver(f, S) ==
    IF S = {} THEN 0
    ELSE LET x == CHOOSE y \in S : TRUE IN f[x] + SumOver(f, S \ {x})

\* Storm.total_ace, of the daily_ace dict d
total_ace(d) == SumOver([day \in DOMAIN d |-> BasinTotal(d[day])], DOMAIN d)

\* sel_by_bbox, line 234: bbox.buffer(0.01).contains(Point(x, y)).  A bbox is
\* given by the sample positions that lie in its buffer.
Contains(bbox, x, y) == <<x, y>> \in bbox

\* sel_by_bbox, line 236: the gap between a selected index and the previous one
GapBreaks(idx, prev) == (idx - prev) > 1

\* (mutant of ContFlagAfter) the flag is computed anew for every pair of
\* neighbours, without regard to the gaps seen before
ContFlagOfLastPair(cont_flag, sel_idx, idx) ==
    IF Len(sel_idx) # 0
    THEN ~GapBreaks(idx, sel_idx[Len(sel_idx)])
    ELSE cont_flag

\* sel_by_bbox, lines 235-237: cont_flag after the sample of index idx was
\* found inside, sel_idx being the indices selected before it
ContFlagAfter(cont_flag, sel_idx, idx) ==
    IF cont_flag /\ Len(sel_idx) # 0
    THEN ~GapBreaks(idx, sel_idx[Len(sel_idx)])
    ELSE cont_flag

\* sel_by_bbox, lines 230-238: the loop from sample index n (0-based) on;
\* st is [cont_flag, sel_idx]
RECURSIVE SelLoop(_, _, _, _)
SelLoop(s, bbox, n, st) ==
    IF n >= Len(s.longitude) \/ n >= Len(s.latitude) THEN st
    ELSE IF Contains(bbox, s.longitude[n + 1], s.latitude[n + 1])
    THEN SelLoop(s, bbox, n + 1,
                 [cont_flag |-> ContFlagAfter(st.cont_flag, st.sel_idx, n),
                  sel_idx |-> Append(st.sel_idx, n)])
    ELSE SelLoop(s, bbox, n + 1, st)

\* a[sel_idx] of a sequence a and a list of 0-based indices
Take(a, sel_idx) == [n \in DOMAIN sel_idx |-> a[sel_idx[n] + 1]]
TakeOpt(a, sel_idx) == IF a.some THEN Some(Take(a.v, sel_idx)) ELSE None

\* sel_by_bbox, lines 248-250: s.flags['continuous'] = cont_flag, and
\* s.flags['subset'] = True when fewer than all samples are selected.  dicts
\* is [self, new], the flags dicts of the two Storms in play: that of the
\* Storm the method runs on, and the one Storm.__init__ (line 116) created
\* for the Storm s it built, which is the one the assignments write
SetFlags(dicts, cont_flag, sel_idx, longitude) ==
    LET withCont == [dicts EXCEPT !.new.continuous = cont_flag]
    IN  IF Len(sel_idx) # Len(longitude)
        THEN [withCont EXCEPT !.new.subset = TRUE]
        ELSE withCont

\* Storm.sel_by_bbox, lines 229-252: [returned, self], the Storm it returns
\* (NoStorm for None) and the Storm it ran on as the call leaves it (a[sel_idx]
\* of an array is a copy, and no attribute of self is assigned)
SelOutcome(s, bbox) ==
    LET st == SelLoop(s, bbox, 0, [cont_flag |-> TRUE, sel_idx |-> <<>>])
        new == StormInit(s.atcf_id, Take(s.time, st.sel_idx),
                         Take(s.longitude, st.sel_idx),
                         Take(s.latitude, st.sel_idx),
                         Take(s.wind, st.sel_idx),
                         TakeOpt(s.pressure, st.sel_idx),
                         TakeOpt(s.storm_type, st.sel_idx), s.name)
        dicts == SetFlags([self |-> s.flags, new |-> new.flags],
                          st.cont_flag, st.sel_idx, s.longitude)
    IN  IF st.sel_idx = <<>> THEN [returned |-> NoStorm, self |-> s]
        ELSE [returned |-> [new EXCEPT !.flags = dicts.new],
              self |-> [s EXCEPT !.flags = dicts.self]]

\* Storm.sel_by_bbox: the Storm it returns, or NoStorm for None
sel_by_bbox(s, bbox) == SelOutcome(s, bbox).returned

\* Storm.interp, lines 255-258: the exception its checks raise, or "none"
InterpCheck(s, hour_interval) ==
    IF ~s.flags.continuous THEN "ValueError"
    ELSE IF hour_interval <= 0 THEN "ValueError"
    ELSE "none"

\* A float that interpolation yields, as the fraction num/den in lowest terms
\* (the rounding of the floating-point operations is left out)
RECURSIVE Gcd(_, _)
Gcd(a, b) == IF b = 0 THEN a ELSE Gcd(b, a % b)
Frac(num, den) ==
    LET g == Gcd(IF num < 0 THEN 0 - num ELSE num, den)
    IN  [num |-> num \div g, den |-> den \div g]

\* np.arange(start, stop, step) for step > 0 (all three in hours)
Arange(start, stop, step) ==
    LET n == IF stop > start THEN (stop - start + step - 1) \div step ELSE 0
    IN  [m \in 1..n |-> start + (m - 1) * step]

\* interp1d(x, y, kind='linear', fill_value='extrapolate')(xnew), for an
\* increasing x of two entries or more: the segment is the one searchsorted
\* finds, clipped to the first and the last
Interp1d(x, y, xnew) ==
    LET above == {n \in 2..Len(x) : x[n] >= xnew}
        hi == IF above = {} THEN Len(x)
              ELSE CHOOSE n \in above : \A m \in above : n <= m
        lo == hi - 1
    IN  Frac(y[lo] * (x[hi] - x[lo]) + (y[hi] - y[lo]) * (xnew - x[lo]),
             x[hi] - x[lo])

\* Storm.interp, lines 260-274 and 280-286: the Storm it returns for a Storm
\* without storm types that passed the checks
InterpStorm(s, hour_interval) ==
    LET first == s.mjd[1]
        new_times == Arange(first, s.mjd[Len(s.mjd)], hour_interval)
        Resample(y) ==
            [m \in DOMAIN new_times |-> Interp1d(s.mjd, y, new_times[m])]
        new == StormInit(s.atcf_id,
                         [m \in DOMAIN new_times |->
                             AddHours(s.time[1], new_times[m] - first)],
                         Resample(s.longitude), Resample(s.latitude),
                         Resample(s.wind),
                         IF s.pressure.some THEN Some(Resample(s.pressure.v))
                                            ELSE None,
                         None, s.name)
    IN  [new EXCEPT !.flags = [continuous |-> TRUE, interpolated |-> TRUE,
                               subset |-> FALSE]]

\* Storm.interp: its possible outcomes, [exc, returned].
\*  - the checks of lines 255-258 raise ValueError;
\*  - interp1d of the storm types (line 277) raises ValueError: it casts the
\*    strings to float64;
\*  - for a Storm of one sample without storm types the outcome is that of the
\*    scipy installed: interp1d (line 262) raises ValueError where it wants two
\*    entries, and elsewhere np.arange is empty and the Storm has no sample.
interp(s, hour_interval) ==
    LET raises == [exc |-> "ValueError", returned |-> NoStorm]
        returns == [exc |-> "none", returned |-> InterpStorm(s, hour_interval)]
    IN  IF InterpCheck(s, hour_interval) # "none" THEN {raises}
        ELSE IF s.storm_type.some THEN {raises}
        ELSE IF Len(s.mjd) < 2 THEN {raises, returns}
        ELSE {returns}

(***************************************************************************)
(* The values of the variables of a machine that is not running.           *)
(***************************************************************************)
BDeckIdle ==
    /\ lines = <<>> /\ opened = FALSE /\ fullyread = FALSE
    /\ formal_advisory = TRUE /\ tropical_nature = FALSE
    /\ i = 0 /\ count = 0 /\ offset = 0
    /\ idata = None /\ data = None /\ metadata = None
    /\ pc = "idle" /\ exc = "none"
    /\ emitted = <<>> /\ consumed = {} /\ mismatched = {} /\ asopened = FALSE

StormIdle ==
    /\ storm = NoStorm /\ origin = <<>> /\ source = NoStorm
    /\ last = [op |-> "none"] /\ cache = EmptyDict /\ spc = "idle"

SeasonIdle ==
    /\ season = <<>> /\ opc = "idle" /\ call = [op |-> "none"]
    /\ events = <<>> /\ k = 0 /\ active = {} /\ overlaps = <<>>
    /\ prev_time = PyNoTime /\ ace = <<>> /\ result = None

(***************************************************************************)
(* The BDeckFile machine: BDeckFile(filename) and any sequence of calls of *)
(* open(), reset(), clear(), close() and read_data(...), the last one pass *)
(* of its loop at a time, and Storm.from_bdeck on the data of the read of  *)
(* a newly opened file with formal_advisory=False.                         *)
(***************************************************************************)
\* BDeckFile.__init__, for a file of the lines `lines`
InitBDeck ==
    /\ lines \in Files
    /\ opened = FALSE /\ fullyread = FALSE
    /\ formal_advisory = TRUE /\ tropical_nature = FALSE
    /\ i = 0 /\ count = 0 /\ offset = 0
    /\ idata = None /\ data = None /\ metadata = None
    /\ pc = "closed" /\ exc = "none"
    /\ emitted = <<>> /\ consumed = {} /\ mismatched = {} /\ asopened = FALSE
    /\ StormIdle /\ SeasonIdle

\* No method of the object is running: the caller can call one
Callable == pc \in {"closed", "opened", "done", "raised"}

\* A call of open, reset, clear or close returns: the locals of the last
\* read_data, its outcome and its histories are gone
Returned ==
    /\ formal_advisory' = TRUE /\ tropical_nature' = FALSE
    /\ i' = 0 /\ count' = 0 /\ exc' = "none"
    /\ emitted' = <<>> /\ consumed' = {} /\ mismatched' = {}
    /\ asopened' = FALSE
    /\ pc' = IF opened' THEN "opened" ELSE "closed"

\* BDeckFile.open: an opened object keeps its file handle and its position
Open ==
    /\ Callable
    /\ opened' = TRUE
    /\ offset' = IF opened THEN offset ELSE 0
    /\ data' = EmptyDict /\ idata' = EmptyDict /\ metadata' = OpenMetadata
    /\ Returned
    /\ UNCHANGED <<lines, fullyread>>
    /\ UNCHANGED <<stormVars, seasonVars>>

\* BDeckFile.reset
Reset ==
    /\ Callable
    /\ offset' = IF opened THEN 0 ELSE offset
    /\ UNCHANGED <<lines, opened, fullyread, idata, data, metadata>>
    /\ Returned
    /\ UNCHANGED <<stormVars, seasonVars>>

\* BDeckFile.clear
Clear ==
    /\ Callable
    /\ data' = EmptyDict /\ idata' = EmptyDict /\ metadata' = EmptyDict
    /\ offset' = IF opened THEN 0 ELSE offset
    /\ fullyread' = FALSE
    /\ UNCHANGED <<lines, opened>>
    /\ Returned
    /\ UNCHANGED <<stormVars, seasonVars>>

\* BDeckFile.close (and __exit__): the position goes with the file handle
Close ==
    /\ Callable
    /\ opened' = FALSE
    /\ offset' = 0
    /\ Returned
    /\ UNCHANGED <<lines, fullyread, idata, data, metadata>>
    /\ UNCHANGED <<stormVars, seasonVars>>

\* read_data on an object that is not opened: lines 230-231
ReadUnopened ==
    /\ Callable /\ ~opened
    /\ exc' = "IOError" /\ pc' = "raised"
    /\ UNCHANGED <<lines, opened, fullyread, formal_advisory, tropical_nature, i,
                   count, offset, idata, data, metadata, emitted, consumed,
                   mismatched, asopened>>
    /\ UNCHANGED <<stormVars, seasonVars>>

\* len(data[key]) of the column every record has
Records(dat) ==
    IF "_long_format" \in DOMAIN dat THEN Len(dat["_long_format"]) ELSE 0

\* read_data(formal_advisory, tropical_nature): lines 230-234.  readlines()
\* returns the lines from the position of the handle on and leaves the handle
\* at the end of the file.  (A read that could bring data to more than
\* MaxLines records is left out.)
ReadData ==
    /\ Callable /\ opened
    /\ fullyread \/ Records(data) + (Len(lines) - offset) <= MaxLines
    /\ \E fa \in BOOLEAN, tn \in BOOLEAN :
          formal_advisory' = fa /\ tropical_nature' = tn
    /\ count' = Len(lines) - offset /\ offset' = Len(lines)
    /\ i' = 0 /\ exc' = "none" /\ pc' = "reading"
    /\ emitted' = <<>> /\ consumed' = {} /\ mismatched' = {}
    /\ asopened' = (/\ offset = 0 /\ ~fullyread
                    /\ data = EmptyDict /\ idata = EmptyDict
                    /\ metadata = OpenMetadata)
    /\ UNCHANGED <<lines, opened, fullyread, idata, data, metadata>>
    /\ UNCHANGED <<stormVars, seasonVars>>

\* read_data's local `lines`: the last `count` lines of the file
ReadLines == SubSeq(lines, Len(lines) - count + 1, Len(lines))

InLoop == pc = "reading" /\ i < count
ThisPass == Pass(ReadLines, i, idata, formal_advisory, tropical_nature)

\* a pass p that a filter ends: lines 240-247
IterSkip(p) ==
    /\ p.kind = "skip"
    /\ i' = p.i
    /\ UNCHANGED <<lines, opened, fullyread, formal_advisory, tropical_nature,
                   count, offset, idata, data, metadata, pc, exc, emitted,
                   consumed, mismatched, asopened>>

\* a pass p through _record_all and _record_meta: lines 304-306
IterEmit(p) ==
    /\ p.kind = "emit" /\ ~RecordMetaRaises(metadata, fullyread)
    /\ idata' = p.idata
    /\ data' = RecordAll(data, idata', fullyread)
    /\ metadata' = RecordMeta(metadata, idata', fullyread)
    /\ i' = p.i
    /\ emitted' = IF fullyread THEN emitted ELSE Append(emitted, i)
    /\ consumed' = consumed \cup p.used
    /\ UNCHANGED <<lines, opened, fullyread, formal_advisory, tropical_nature,
                   count, offset, pc, exc, mismatched, asopened>>

\* a pass p through _record_all that _record_meta ends with KeyError: lines
\* 304, 305 and 328
IterEmitRaises(p) ==
    /\ p.kind = "emit" /\ RecordMetaRaises(metadata, fullyread)
    /\ idata' = p.idata
    /\ data' = RecordAll(data, idata', fullyread)
    /\ i' = p.i - 1
    /\ emitted' = Append(emitted, i)
    /\ consumed' = consumed \cup p.used
    /\ exc' = "KeyError" /\ pc' = "raised"
    /\ UNCHANGED <<lines, opened, fullyread, formal_advisory, tropical_nature,
                   count, offset, metadata, mismatched, asopened>>

\* a pass p that a lookahead at the end of the file ends: `break`, then line 308
IterBreak(p) ==
    /\ p.kind = "break"
    /\ idata' = p.idata
    /\ i' = p.i
    /\ consumed' = consumed \cup p.used
    /\ fullyread' = TRUE /\ pc' = "done"
    /\ UNCHANGED <<lines, opened, formal_advisory, tropical_nature, count,
                   offset, data, metadata, exc, emitted, mismatched, asopened>>

\* a pass p that a lookahead at a line of another timestamp ends: `continue`
IterContinue(p) ==
    /\ p.kind = "continue"
    /\ idata' = p.idata
    /\ i' = p.i
    /\ consumed' = consumed \cup p.used
    /\ mismatched' = mismatched \cup {p.missed}
    /\ UNCHANGED <<lines, opened, fullyread, formal_advisory, tropical_nature,
                   count, offset, data, metadata, pc, exc, emitted, asopened>>

\* a pass p that an exception ends: it leaves read_data
IterRaise(p) ==
    /\ p.kind = "raise"
    /\ idata' = p.idata
    /\ i' = p.i
    /\ consumed' = consumed \cup p.used
    /\ exc' = p.exc /\ pc' = "raised"
    /\ UNCHANGED <<lines, opened, fullyread, formal_advisory, tropical_nature,
                   count, offset, data, metadata, emitted, mismatched, asopened>>

\* one pass of the while loop: lines 235-306
Iter ==
    /\ InLoop
    /\ \E p \in {ThisPass} :
          \/ IterSkip(p) \/ IterEmit(p) \/ IterEmitRaises(p)
          \/ IterBreak(p) \/ IterContinue(p) \/ IterRaise(p)
    /\ UNCHANGED <<stormVars, seasonVars>>

\* the loop ends: line 308
ReadDone ==
    /\ pc = "reading" /\ i >= count
    /\ fullyread' = TRUE /\ pc' = "done"
    /\ UNCHANGED <<lines, opened, formal_advisory, tropical_nature, i, count,
                   offset, idata, data, metadata, exc, emitted, consumed,
                   mismatched, asopened>>
    /\ UNCHANGED <<stormVars, seasonVars>>

\* Storm.from_bdeck: BDeckFile(path), open(), read_all(formal_advisory=False),
\* the Storm, close()
FromBdeck ==
    /\ pc = "done" /\ asopened /\ ~formal_advisory /\ ~tropical_nature
    /\ ~FromBdeckRaises(data)
    /\ storm' = FromBdeckStorm(data, metadata)
    /\ opened' = FALSE /\ pc' = "storm"
    /\ UNCHANGED <<lines, fullyread, formal_advisory, tropical_nature, i, count,
                   offset, idata, data, metadata, exc, emitted, consumed,
                   mismatched, asopened>>
    /\ UNCHANGED <<origin, source, last, cache, spc, seasonVars>>

\* Storm.from_bdeck of a read that kept no record: data['time'] raises
FromBdeckEmpty ==
    /\ pc = "done" /\ asopened /\ ~formal_advisory /\ ~tropical_nature
    /\ FromBdeckRaises(data)
    /\ exc' = "KeyError" /\ pc' = "from_bdeck_raised"
    /\ UNCHANGED <<lines, opened, fullyread, formal_advisory, tropical_nature, i,
                   count, offset, idata, data, metadata, emitted, consumed,
                   mismatched, asopened>>
    /\ UNCHANGED <<stormVars, seasonVars>>

NextBDeck ==
    \/ Open \/ Reset \/ Clear \/ Close \/ ReadUnopened \/ ReadData
    \/ Iter \/ ReadDone \/ FromBdeck \/ FromBdeckEmpty

SpecBDeck == InitBDeck /\ [][NextBDeck]_vars

(***************************************************************************)
(* The Storm machine: a Storm built from explicit arrays of equal length,  *)
(* and its cached properties daily_ace, total_ace and atcf_season.         *)
(***************************************************************************)
\* The samples a Storm is built from: wind (kt), position (tenths of a
\* degree, longitude 0..3600 East) and storm type
SampleShapes ==
    { [wind |-> 60, lon |-> 1500, lat |-> 100, type |-> "TS"],    \* WPAC
      [wind |-> 35, lon |-> 2500, lat |-> 150, type |-> "HU"],    \* EPAC
      [wind |-> 34, lon |-> 900, lat |-> 150, type |-> "TD"],     \* NIO, < 35 kt
      [wind |-> 60, lon |-> 1600, lat |-> -150, type |-> "EX"],   \* SHEM, not tropical
      [wind |-> 100, lon |-> 3200, lat |-> 250, type |-> "ST"] }  \* ATL

\* The ATCF ids a Storm is built with: basin code and number
StormIds ==
    { [basin |-> <<"W", "P">>, number |-> 2],
      [basin |-> <<"S", "H">>, number |-> 3],
      [basin |-> <<"S", "H">>, number |-> 62],
      [basin |-> <<"A", "L">>, number |-> 10],
      [basin |-> <<"E", "P">>, number |-> 5],
      [basin |-> <<"C", "P">>, number |-> 1],
      [basin |-> <<"I", "O">>, number |-> 2] }

\* Storm(atcfid, time, longitude, latitude, wind, None, storm_type) for the
\* samples sh at the consecutive timestamps of TimeGrid from `first` on
BuildStorm(id, first, sh, typed) ==
    StormInit(id.basin \o Format02d(id.number),
              [n \in DOMAIN sh |-> TimeGrid[first + n - 1]],
              [n \in DOMAIN sh |-> sh[n].lon],
              [n \in DOMAIN sh |-> sh[n].lat],
              [n \in DOMAIN sh |-> sh[n].wind],
              None,
              IF typed THEN Some([n \in DOMAIN sh |-> sh[n].type]) ELSE None,
              "")

InitStorm ==
    /\ \E n \in 1..MaxSamples :
       \E first \in 1..(Len(TimeGrid) - n + 1) :
       \E sh \in [1..n -> SampleShapes] :
       \E id \in StormIds :
       \E typed \in BOOLEAN :
          /\ storm = BuildStorm(id, first, sh, typed)
          /\ last = [op |-> "Storm", basin |-> id.basin, number |-> id.number]
          /\ origin = [m \in 1..n |-> m - 1]
    /\ source = NoStorm /\ cache = EmptyDict /\ spc = "built"
    /\ BDeckIdle /\ SeasonIdle

\* the first access to Storm.daily_ace
DailyAce ==
    /\ spc = "built" /\ "daily_ace" \notin DOMAIN cache
    /\ cache' = Put(cache, "daily_ace", daily_ace(storm))
    /\ UNCHANGED <<storm, origin, source, last, spc>>
    /\ UNCHANGED <<bdeckVars, seasonVars>>

\* the first access to Storm.total_ace (which reads daily_ace)
TotalAce ==
    /\ spc = "built" /\ "total_ace" \notin DOMAIN cache
    /\ LET d == IF "daily_ace" \in DOMAIN cache THEN cache["daily_ace"]
                ELSE daily_ace(storm)
       IN  cache' = Put(Put(cache, "daily_ace", d), "total_ace", total_ace(d))
    /\ UNCHANGED <<storm, origin, source, last, spc>>
    /\ UNCHANGED <<bdeckVars, seasonVars>>

\* the first access to Storm.atcf_season
AtcfSeason ==
    /\ spc = "built" /\ "atcf_season" \notin DOMAIN cache
    /\ cache' = Put(cache, "atcf_season", atcf_season(storm))
    /\ UNCHANGED <<storm, origin, source, last, spc>>
    /\ UNCHANGED <<bdeckVars, seasonVars>>

NextStorm == DailyAce \/ TotalAce \/ AtcfSeason

SpecStorm == InitStorm /\ [][NextStorm]_vars

(***************************************************************************)
(* The selection machine: a Storm built from explicit arrays, and any      *)
(* sequence of sel_by_bbox (each applied to the Storm the one before       *)
(* returned) and interp calls.                                             *)
(***************************************************************************)
\* The positions of the samples (tenths of a degree); a bbox is modelled by
\* the positions in its buffer
Points == { <<1500, 100>>, <<1510, 105>>, <<1520, 110>> }

\* The Storms of the selection machine: up to MaxSelSamples samples at the
\* first timestamps of TimeGrid (18Z, 00Z, 03Z, 06Z), six-hourly after them
InitSel ==
    /\ \E n \in 1..MaxSelSamples :
       \E pos \in [1..n -> Points] :
       \E withPressure \in BOOLEAN :
       \E typed \in BOOLEAN :
          /\ storm = StormInit(<<"W", "P", "0", "1">>,
                               [m \in 1..n |->
                                   IF m <= 4 THEN TimeGrid[m]
                                   ELSE AddHours(TimeGrid[4], 6 * (m - 4))],
                               [m \in 1..n |-> pos[m][1]],
                               [m \in 1..n |-> pos[m][2]],
                               [m \in 1..n |-> 30 + 10 * m],
                               IF withPressure
                                  THEN Some([m \in 1..n |-> 1000 - m]) ELSE None,
                               IF typed
                                  THEN Some([m \in 1..n |-> "TS"]) ELSE None,
                               "KIKO")
          /\ origin = [m \in 1..n |-> m - 1]
    /\ source = NoStorm /\ last = [op |-> "Storm"]
    /\ cache = EmptyDict /\ spc = "built"
    /\ BDeckIdle /\ SeasonIdle

\* The 0-based indices of the samples of s in the buffer of bbox
Inside(s, bbox) ==
    {n \in 0..(Len(s.longitude) - 1) :
        <<s.longitude[n + 1], s.latitude[n + 1]>> \in bbox}

\* storm.sel_by_bbox(bbox) that returns a Storm, which becomes the Storm
\* under study
SelByBbox ==
    /\ spc = "built"
    /\ \E bbox \in SUBSET Points :
       \E out \in {SelOutcome(storm, bbox)} :
          /\ out.returned # NoStorm
          /\ storm' = out.returned
          /\ source' = out.self
          /\ last' = [op |-> "sel_by_bbox", self |-> storm,
                      inside |-> Inside(storm, bbox),
                      returned |-> out.returned]
          /\ origin' = Take(origin, Ascending(Inside(storm, bbox)))
    /\ UNCHANGED <<cache, spc>>
    /\ UNCHANGED <<bdeckVars, seasonVars>>

\* storm.sel_by_bbox(bbox) that returns None
SelByBboxNone ==
    /\ spc = "built"
    /\ \E bbox \in SUBSET Points :
       \E out \in {SelOutcome(storm, bbox)} :
          /\ out.returned = NoStorm
          /\ source' = out.self
          /\ last' = [op |-> "sel_by_bbox", self |-> storm,
                      inside |-> Inside(storm, bbox),
                      returned |-> NoStorm]
    /\ UNCHANGED <<storm, origin, cache, spc>>
    /\ UNCHANGED <<bdeckVars, seasonVars>>

HourIntervals == {-6, 0, 3, 6}

\* storm.interp(hour_interval) that raises
InterpRaises ==
    /\ spc = "built"
    /\ \E h \in HourIntervals : \E o \in interp(storm, h) :
          /\ o.exc # "none"
          /\ last' = [op |-> "interp", hour_interval |-> h,
                      exc |-> o.exc, returned |-> NoStorm]
    /\ source' = storm
    /\ UNCHANGED <<storm, origin, cache, spc>>
    /\ UNCHANGED <<bdeckVars, seasonVars>>

\* storm.interp(hour_interval) that returns the resampled Storm (the Storm
\* under study stays the one interp was called on)
InterpResamples ==
    /\ spc = "built"
    /\ \E h \in HourIntervals : \E o \in interp(storm, h) :
          /\ o.exc = "none"
          /\ last' = [op |-> "interp", hour_interval |-> h,
                      exc |-> "none", returned |-> o.returned]
    /\ source' = storm
    /\ UNCHANGED <<storm, origin, cache, spc>>
    /\ UNCHANGED <<bdeckVars, seasonVars>>

NextSel == SelByBbox \/ SelByBboxNone \/ InterpRaises \/ InterpResamples

SpecSel == InitSel /\ [][NextSel]_vars

(***************************************************************************)
(* kiko/utils.py: find_overlaps.                                           *)
(***************************************************************************)
\* datetime < datetime
DtLess(a, b) ==
    \/ a.year < b.year
    \/ a.year = b.year /\ a.month < b.month
    \/ a.year = b.year /\ a.month = b.month /\ a.day < b.day
    \/ a.year = b.year /\ a.month = b.month /\ a.day = b.day /\ a.hour < b.hour

\* lines 87-90: the events (start_0, end_0, start_1, end_1, ...) of the
\* intervals; idx is the 0-based index of the interval
Events(intervals) ==
    [n \in 1..(2 * Len(intervals)) |->
        LET idx == (n - 1) \div 2 IN
        IF n % 2 = 1
        THEN [time |-> intervals[idx + 1][1], type |-> "start", idx |-> idx]
        ELSE [time |-> intervals[idx + 1][2], type |-> "end", idx |-> idx]]

\* line 93, the sort key (time, 0 if start else 1): a sorts strictly before b
EventBefore(a, b) ==
    \/ DtLess(a.time, b.time)
    \/ a.time = b.time /\ a.type = "start" /\ b.type = "end"

\* line 93, list.sort (stable): e placed after the events that do not sort
\* after it
RECURSIVE InsertEvent(_, _)
InsertEvent(sorted, e) ==
    IF sorted = <<>> THEN <<e>>
    ELSE IF EventBefore(e, Head(sorted)) THEN <<e>> \o sorted
    ELSE <<Head(sorted)>> \o InsertEvent(Tail(sorted), e)

RECURSIVE SortEvents(_)
SortEvents(ev) ==
    IF ev = <<>> THEN <<>>
    ELSE InsertEvent(SortEvents(SubSeq(ev, 1, Len(ev) - 1)), ev[Len(ev)])

\* (mutant of EnoughActive) one active interval is enough
EnoughActiveOne(act) == Cardinality(act) >= 1

\* line 102: len(active) >= 2
EnoughActive(act) == Cardinality(act) >= 2

\* lines 99-111: one pass of the loop, for the event e, on the state
\* st = [active, overlaps, prev_time, exc]; active.remove of an index that is
\* not active raises KeyError
SweepEvent(st, e) ==
    LET out == IF /\ st.prev_time # PyNoTime
                  /\ DtLess(st.prev_time, e.time)
                  /\ EnoughActive(st.active)
               THEN Append(st.overlaps,
                           [start |-> st.prev_time, end |-> e.time,
                            idx |-> Ascending(st.active)])
               ELSE st.overlaps
    IN  IF e.type = "start"
        THEN [active |-> st.active \cup {e.idx}, overlaps |-> out,
              prev_time |-> e.time, exc |-> "none"]
        ELSE IF e.idx \in st.active
        THEN [active |-> st.active \ {e.idx}, overlaps |-> out,
              prev_time |-> e.time, exc |-> "none"]
        ELSE [active |-> st.active, overlaps |-> out,
              prev_time |-> st.prev_time, exc |-> "KeyError"]

(***************************************************************************)
(* kiko/season.py                                                          *)
(***************************************************************************)
\* SeasonDataset.__init__: season_dict (season -> the storms of that season,
\* in the order given) and storm_dict (full id -> the last storm given with
\* that id); storms is the argument
SeasonInit(storms) ==
    LET years == {atcf_season(storms[n]) : n \in DOMAIN storms}
        ids == {full_atcf_id(storms[n]) : n \in DOMAIN storms}
        LastWith(id) ==
            CHOOSE n \in DOMAIN storms :
                /\ full_atcf_id(storms[n]) = id
                /\ \A m \in DOMAIN storms :
                      full_atcf_id(storms[m]) = id => m <= n
    IN  [storms |-> storms,
         season_dict |-> [y \in years |->
                             SelectSeq(storms, LAMBDA s : atcf_season(s) = y)],
         storm_dict |-> [id \in ids |-> storms[LastWith(id)]]]

\* overlapping_storm, line 60: start_time_tropical and end_time_tropical
HasTropicalPeriod(s) ==
    start_time_tropical(s) # PyNoTime /\ end_time_tropical(s) # PyNoTime

\* overlapping_storm, lines 56-65: valid_storm_list
ValidStormList(storm_list, tropical) ==
    IF tropical THEN SelectSeq(storm_list, HasTropicalPeriod) ELSE storm_list

\* overlapping_storm, lines 56-65: storm_periods
StormPeriods(storm_list, tropical) ==
    LET valid == ValidStormList(storm_list, tropical) IN
    [n \in DOMAIN valid |->
        IF tropical
        THEN <<start_time_tropical(valid[n]), end_time_tropical(valid[n])>>
        ELSE <<start_time(valid[n]), end_time(valid[n])>>]

\* overlapping_storm, lines 67-75: the value returned for the overlaps p
StormOverlap(p, valid_storm_list) ==
    [n \in DOMAIN p |->
        [start |-> p[n].start, end |-> p[n].end,
         ids |-> [m \in DOMAIN p[n].idx |->
                     full_atcf_id(valid_storm_list[p[n].idx[m] + 1])]]]

\* (mutant of ScannedYears) only the target year is scanned
ScannedYearsTargetOnly(year) == <<year>>

\* daily_ace, lines 27 and 34: [year - 1, year, year + 1]
ScannedYears(year) == <<year - 1, year, year + 1>>

\* daily_ace, lines 27-31: some scanned year is in season_dict
HasScannedYear(sd, year) ==
    \E n \in DOMAIN ScannedYears(year) :
        ScannedYears(year)[n] \in DOMAIN sd.season_dict

\* daily_ace, lines 34-37: the storms the loops visit, in order
RECURSIVE ScannedStorms(_, _)
ScannedStorms(sd, yrs) ==
    IF yrs = <<>> THEN <<>>
    ELSE (IF Head(yrs) \in DOMAIN sd.season_dict
          THEN sd.season_dict[Head(yrs)] ELSE <<>>)
         \o ScannedStorms(sd, Tail(yrs))

\* daily_ace, lines 39-44: one day-bucket (mjd, basin_ace) added to the array
AddBucket(a, year, mjd, basin_ace, basin) ==
    LET day_of_year == mjd - (datetime_to_mjd(DT(year, 1, 1, 0)) \div 24) IN
    IF 0 <= day_of_year /\ day_of_year < Len(a)
    THEN [a EXCEPT ![day_of_year + 1] =
              @ + (IF basin = PyNone THEN BasinTotal(basin_ace)
                   ELSE BasinGet(basin_ace, basin))]
    ELSE a

\* daily_ace, line 38: the loop over storm.daily_ace.items(), for the
\* day-buckets d and the keys `days` still to visit
RECURSIVE AddBuckets(_, _, _, _, _)
AddBuckets(a, year, d, days, basin) ==
    IF days = <<>> THEN a
    ELSE AddBuckets(AddBucket(a, year, Head(days), d[Head(days)], basin),
                    year, d, Tail(days), basin)

\* daily_ace, lines 37-44: the loop over the storms
RECURSIVE AddStorms(_, _, _, _)
AddStorms(a, year, storms, basin) ==
    IF storms = <<>> THEN a
    ELSE LET d == daily_ace(Head(storms)) IN
         AddStorms(AddBuckets(a, year, d, Ascending(DOMAIN d), basin),
                   year, Tail(storms), basin)

\* daily_ace, lines 32-44: the array before the leap-day fold
YearAce(sd, year, basin) ==
    LET data_size == IF IsLeap(year) THEN 366 ELSE 365 IN
    AddStorms([n \in 1..data_size |-> 0], year,
              ScannedStorms(sd, ScannedYears(year)), basin)

\* (mutant of PushLeapDay) the Feb 29 slot is removed without being added
PushLeapDayDropping(a) ==
    [n \in 1..(Len(a) - 1) |-> IF n < 60 THEN a[n] ELSE a[n + 1]]

\* daily_ace, lines 46-48: ace[59] += ace[60]; np.delete(ace, 60)
PushLeapDay(a) ==
    [n \in 1..(Len(a) - 1) |->
        IF n < 60 THEN a[n]
        ELSE IF n = 60 THEN a[60] + a[61]
        ELSE a[n + 1]]

(***************************************************************************)
(* The overlap machine: SeasonDataset(storms) for up to MaxStorms storms,  *)
(* then one overlapping_storm(year, tropical) call, whose find_overlaps   *)
(* loop runs one event at a time.                                          *)
(***************************************************************************)
\* One sample of a storm of the pool
Smp(wind, lon, lat, type) == [wind |-> wind, lon |-> lon, lat |-> lat, type |-> type]

\* Storms of season 2020 with tropical samples: A on Jan 1 00..06, B from
\* Jan 1 06 to Mar 1 (tropical from Feb 29), C from Jan 1 03 to Feb 29
PoolStorm ==
    [ A |->
        BuildStorm([basin |-> <<"W", "P">>, number |-> 2], 2,
                   <<Smp(60, 1500, 100, "TS"), Smp(60, 1500, 100, "TS"),
                     Smp(60, 1500, 100, "TS")>>, TRUE),
      B |->
        BuildStorm([basin |-> <<"A", "L">>, number |-> 10], 4,
                   <<Smp(60, 3200, 250, "EX"), Smp(35, 3200, 250, "HU"),
                     Smp(100, 3200, 250, "ST")>>, TRUE),
      C |->
        BuildStorm([basin |-> <<"E", "P">>, number |-> 5], 3,
                   <<Smp(34, 2500, 150, "TD"), Smp(60, 2500, 150, "TS"),
                     Smp(100, 2500, 150, "ST")>>, TRUE),
      \* Crosses from 2019 into 2020 with number 62: season 2020
      D |->
        BuildStorm([basin |-> <<"S", "H">>, number |-> 62], 1,
                   <<Smp(60, 1600, -150, "TS"), Smp(60, 1600, -150, "TS")>>, TRUE),
      \* Crosses from 2020 into 2021 with number 3: season 2020
      E |->
        BuildStorm([basin |-> <<"S", "H">>, number |-> 3], 8,
                   <<Smp(100, 1600, -150, "ST"), Smp(100, 1600, -150, "ST")>>, TRUE),
      \* No tropical sample, Jan 1 00..06
      F |->
        BuildStorm([basin |-> <<"W", "P">>, number |-> 4], 2,
                   <<Smp(60, 1500, 100, "EX"), Smp(60, 1500, 100, "EX"),
                     Smp(60, 1500, 100, "EX")>>, TRUE),
      \* No type information, Jan 1 06 .. Feb 29
      G |->
        BuildStorm([basin |-> <<"W", "P">>, number |-> 6], 4,
                   <<Smp(60, 1500, 100, ""), Smp(60, 1500, 100, "")>>, FALSE),
      \* Southern hemisphere, from July on: season 2021
      H |->
        BuildStorm([basin |-> <<"S", "H">>, number |-> 7], 7,
                   <<Smp(60, 1600, -150, "TS"), Smp(60, 1600, -150, "TS")>>, TRUE),
      \* Crosses from 2019 into 2020 with number 10: season 2019
      I |->
        BuildStorm([basin |-> <<"A", "L">>, number |-> 10], 1,
                   <<Smp(35, 3200, 250, "HU"), Smp(35, 3200, 250, "HU")>>, TRUE),
      \* A single sample, Jan 1 03
      Z |->
        BuildStorm([basin |-> <<"W", "P">>, number |-> 8], 3,
                   <<Smp(60, 1500, 100, "TS")>>, TRUE) ]

OverlapPool ==
    {PoolStorm.A, PoolStorm.B, PoolStorm.C, PoolStorm.D, PoolStorm.F,
     PoolStorm.G, PoolStorm.H, PoolStorm.Z}
OverlapYears == {2020, 2021, 2022}

\* SeasonDataset(storms)
InitOverlap ==
    /\ \E n \in 0..MaxStorms : \E storms \in [1..n -> OverlapPool] :
          season = SeasonInit(storms)
    /\ opc = "ready" /\ call = [op |-> "none"]
    /\ events = <<>> /\ k = 0 /\ active = {} /\ overlaps = <<>>
    /\ prev_time = PyNoTime /\ ace = <<>> /\ result = None
    /\ BDeckIdle /\ StormIdle

\* overlapping_storm(year, tropical), lines 55-65, and find_overlaps up to
\* its loop, lines 87-97
OverlappingStorm ==
    /\ opc = "ready"
    /\ \E year \in OverlapYears : \E tropical \in BOOLEAN :
          /\ year \in DOMAIN season.season_dict
          /\ LET storm_list == season.season_dict[year] IN
             /\ call' = [op |-> "overlapping_storm", year |-> year,
                         tropical |-> tropical,
                         valid_storm_list |-> ValidStormList(storm_list, tropical)]
             /\ events' = SortEvents(Events(StormPeriods(storm_list, tropical)))
    /\ k' = 0 /\ active' = {} /\ overlaps' = <<>> /\ prev_time' = PyNoTime
    /\ opc' = "sweep"
    /\ UNCHANGED <<season, ace, result>>
    /\ UNCHANGED <<bdeckVars, stormVars>>

\* overlapping_storm(year, tropical) for a year that is not a key of
\* season_dict: line 55 raises KeyError
OverlappingStormNoSeason ==
    /\ opc = "ready"
    /\ \E year \in OverlapYears : \E tropical \in BOOLEAN :
          /\ year \notin DOMAIN season.season_dict
          /\ call' = [op |-> "overlapping_storm", year |-> year,
                      tropical |-> tropical]
    /\ result' = [kind |-> "raised", exc |-> "KeyError"]
    /\ opc' = "raised"
    /\ UNCHANGED <<season, events, k, active, overlaps, prev_time, ace>>
    /\ UNCHANGED <<bdeckVars, stormVars>>

\* find_overlaps, lines 99-111: one pass of the loop
SweepStep ==
    /\ opc = "sweep" /\ k < Len(events)
    /\ LET st == SweepEvent([active |-> active, overlaps |-> overlaps,
                             prev_time |-> prev_time, exc |-> "none"],
                            events[k + 1])
       IN  /\ active' = st.active
           /\ overlaps' = st.overlaps
           /\ prev_time' = st.prev_time
           /\ IF st.exc = "none"
              THEN opc' = "sweep" /\ result' = result
              ELSE opc' = "raised" /\ result' = [kind |-> "raised", exc |-> st.exc]
    /\ k' = k + 1
    /\ UNCHANGED <<season, call, events, ace>>
    /\ UNCHANGED <<bdeckVars, stormVars>>

\* find_overlaps, line 113, and overlapping_storm, lines 67-75
OverlappingStormReturn ==
    /\ opc = "sweep" /\ k = Len(events)
    /\ result' = [kind |-> "list",
                  v |-> IF Len(overlaps) = 0 THEN <<>>
                        ELSE StormOverlap(overlaps, call.valid_storm_list)]
    /\ opc' = "returned"
    /\ UNCHANGED <<season, call, events, k, active, overlaps, prev_time, ace>>
    /\ UNCHANGED <<bdeckVars, stormVars>>

NextOverlap ==
    \/ OverlappingStorm \/ OverlappingStormNoSeason
    \/ SweepStep \/ OverlappingStormReturn

SpecOverlap == InitOverlap /\ [][NextOverlap]_vars

(***************************************************************************)
(* The season ACE machine: SeasonDataset(storms) for up to MaxStorms       *)
(* storms, then one daily_ace(year, push_leap_day, basin) call.            *)
(***************************************************************************)
AcePool ==
    {PoolStorm.A, PoolStorm.B, PoolStorm.C, PoolStorm.D, PoolStorm.E,
     PoolStorm.H, PoolStorm.I}
AceYears == {2019, 2020, 2021, 2022}
AceBasins == {PyNone, "WPAC", "SHEM"}

\* SeasonDataset(storms)
InitSeasonAce ==
    /\ \E n \in 0..MaxStorms : \E storms \in [1..n -> AcePool] :
          season = SeasonInit(storms)
    /\ opc = "ready" /\ call = [op |-> "none"]
    /\ events = <<>> /\ k = 0 /\ active = {} /\ overlaps = <<>>
    /\ prev_time = PyNoTime /\ ace = <<>> /\ result = None
    /\ BDeckIdle /\ StormIdle

\* SeasonDataset.daily_ace(year, push_leap_day, basin); `ace` keeps the
\* array of line 44, before the fold
SeasonDailyAce ==
    /\ opc = "ready"
    /\ \E year \in AceYears : \E push \in BOOLEAN : \E basin \in AceBasins :
          /\ call' = [op |-> "daily_ace", year |-> year,
                      push_leap_day |-> push, basin |-> basin]
          /\ IF ~HasScannedYear(season, year)
             THEN /\ ace' = <<>>
                  /\ result' = [kind |-> "ValueError"]
             ELSE LET a == YearAce(season, year, basin) IN
                  /\ ace' = a
                  /\ result' = [kind |-> "array",
                                v |-> IF push /\ IsLeap(year)
                                      THEN PushLeapDay(a) ELSE a]
    /\ opc' = "returned"
    /\ UNCHANGED <<season, events, k, active, overlaps, prev_time>>
    /\ UNCHANGED <<bdeckVars, stormVars>>

NextSeasonAce == SeasonDailyAce

SpecSeasonAce == InitSeasonAce /\ [][NextSeasonAce]_vars

(***************************************************************************)
(* kiko/utils.py: datetime_to_mjd and mjd_to_datetime on doubles.          *)
(* A Julian date of the years 1030 to 6700 lies in [2^21, 2^22), where the *)
(* doubles are the multiples of 2^-31 day, and every MJD the code derives  *)
(* from one is such a multiple too. Such a double is written here as       *)
(* [day, block, tick] for day + block/8 + tick/2^31, with 0 <= block < 8   *)
(* and 0 <= tick < 2^28: a block is three hours and holds 2^28 ticks. The  *)
(* only step of the two functions that rounds is the addition of the time  *)
(* of day in datetime_to_mjd, line 35; every later product and difference  *)
(* is exact in a double.                                                   *)
(***************************************************************************)
\* 2^28: the doubles within three hours of a Julian date
TicksPerBlock == 268435456

\* line 35, for a whole hour: the time of day within its block, rounded to
\* the nearest tick (hour % 3 thirds of a block; 2^28 is 1 modulo 3)
HourTicks(hour) == ((hour % 3) * TicksPerBlock + 1) \div 3

\* datetime_to_mjd of a timestamp of whole hours, as the double it returns
DatetimeToMjdDouble(dt) ==
    [day |-> datetime_to_mjd([dt EXCEPT !.hour = 0]) \div 24,
     block |-> dt.hour \div 3,
     tick |-> HourTicks(dt.hour)]

\* x + 0.5 of a double x
PlusHalf(x) ==
    IF x.block + 4 >= 8
    THEN [day |-> x.day + 1, block |-> x.block - 4, tick |-> x.tick]
    ELSE [day |-> x.day, block |-> x.block + 4, tick |-> x.tick]

\* int(f * m) and f * m - int(f * m) for the fraction f = r / 2^28 and
\* m <= 1000; the product is taken in two halves of 14 bits
Scale(r, m) ==
    LET hi == (r \div 16384) * m + (((r % 16384) * m) \div 16384)
        lo == ((r % 16384) * m) % 16384
    IN  [int |-> hi \div 16384, frac |-> (hi % 16384) * 16384 + lo]

\* (mutant of FracAtLeastOne) frac > 1.0
FracAboveOne(blocks, tick) == blocks > 8 \/ (blocks = 8 /\ tick > 0)

\* line 56: frac >= 1.0, for frac = blocks/8 + tick/2^31
FracAtLeastOne(blocks, tick) == blocks >= 8

\* mjd_to_datetime; the datetime it builds has the fields year, month, day,
\* hour, minute, second, microsecond
mjd_to_datetime(mjd) ==
    LET jd == PlusHalf([mjd EXCEPT !.day = @ + 2400000])
        blocks == jd.block + 4
        carry == FracAtLeastOne(blocks, jd.tick)
        jd_int == IF carry THEN jd.day + 1 ELSE jd.day
        fblocks == IF carry THEN blocks - 8 ELSE blocks
        hours == 3 * fblocks + ((3 * jd.tick) \div TicksPerBlock)
        mi == Scale((3 * jd.tick) % TicksPerBlock, 60)
        se == Scale(mi.frac, 60)
        ms == Scale(se.frac, 1000)
        us == Scale(ms.frac, 1000)
        l0 == jd_int + 68569
        n == (4 * l0) \div 146097
        l1 == l0 - ((146097 * n + 3) \div 4)
        i0 == (4000 * (l1 + 1)) \div 1461001
        l2 == l1 - ((1461 * i0) \div 4) + 31
        j == (80 * l2) \div 2447
        l3 == j \div 11
    IN  [year |-> 100 * (n - 49) + i0 + l3,
         month |-> j + 2 - 12 * l3,
         day |-> l2 - ((2447 * j) \div 80),
         hour |-> hours,
         minute |-> mi.int,
         second |-> se.int,
         microsecond |-> 1000 * ms.int + us.int]

(***************************************************************************)
(* The MJD machine: datetime_to_mjd(t), then mjd_to_datetime of its value, *)
(* for the timestamps t of whole hours of the years MjdYears.              *)
(***************************************************************************)
MjdYears == {2000, 2019, 2020, 2021, 2100}

InitMjd ==
    /\ \E y \in MjdYears : \E m \in 1..12 : \E d \in 1..DaysInMonth(y, m) :
       \E h \in 0..23 :
          call = [op |-> "datetime_to_mjd", t |-> DT(y, m, d, h)]
    /\ opc = "ready" /\ season = <<>>
    /\ events = <<>> /\ k = 0 /\ active = {} /\ overlaps = <<>>
    /\ prev_time = PyNoTime /\ ace = <<>> /\ result = None
    /\ BDeckIdle /\ StormIdle

\* datetime_to_mjd(t)
DatetimeToMjd ==
    /\ opc = "ready" /\ call.op = "datetime_to_mjd"
    /\ result' = [kind |-> "mjd", v |-> DatetimeToMjdDouble(call.t)]
    /\ opc' = "converted"
    /\ UNCHANGED <<season, call, events, k, active, overlaps, prev_time, ace>>
    /\ UNCHANGED <<bdeckVars, stormVars>>

\* mjd_to_datetime of the value datetime_to_mjd returned
MjdToDatetime ==
    /\ opc = "converted"
    /\ result' = [kind |-> "datetime", mjd |-> result.v,
                  v |-> mjd_to_datetime(result.v)]
    /\ opc' = "returned"
    /\ UNCHANGED <<season, call, events, k, active, overlaps, prev_time, ace>>
    /\ UNCHANGED <<bdeckVars, stormVars>>

NextMjd == DatetimeToMjd \/ MjdToDatetime

SpecMjd == InitMjd /\ [][NextMjd]_vars

(***************************************************************************)
(* Properties of the BDeckFile machine.                                    *)
(***************************************************************************)
\* The filters of the spec (4.1): formal-advisory-only keeps the hour suffixes
\* 00, 06, 12, 18; tropical-nature-only drops the long lines of type SS, SD, EX.
PassesFilters(L) ==
    /\ formal_advisory => TimeGrid[L.ts.id].hour \in {0, 6, 12, 18}
    /\ ~(tropical_nature /\ L.nf > 20 /\ L.cat \in {"SS", "SD", "EX"})

\* The lines a record is due for: they pass the filters and no lookahead of an
\* earlier line read its radii from them
RetainedLines ==
    Ascending({n \in 0..(Len(lines) - 1) :
                  PassesFilters(LineAt(lines, n)) /\ n \notin consumed})

Column(key) == IF key \in DOMAIN data THEN data[key] ELSE <<>>

\* C1: when the read_data of a newly opened file has returned, data holds
\* exactly one record for each line that passes the filters and was not
\* consumed by a lookahead, in file order (read off the columns timestr and
\* wind, which every record sets).
C1_OneRecordPerRetainedLine ==
    (pc = "done" /\ asopened) =>
        /\ Column("timestr") =
              [n \in 1..Len(RetainedLines) |-> LineAt(lines, RetainedLines[n]).ts]
        /\ Column("wind") =
              [n \in 1..Len(RetainedLines) |->
                  SafeInt(LineAt(lines, RetainedLines[n]).wind)]

\* A long line that the reader parses without an exception (a row that is
\* well formed as far as the fields read before the lookahead go)
WellFormedLong(L) ==
    /\ L.nf > 20 /\ L.ts.ok /\ L.lat.hemi # "" /\ L.lon.hemi # ""
    /\ (SafeInt(L.wind) > 34 => \A n \in 1..4 : L.rad[n].num)

\* The reader is at a long record with wind >= 50 that passes the filters
AtLookaheadRecord ==
    /\ pc = "reading" /\ i < count /\ count = Len(lines)
    /\ WellFormedLong(LineAt(lines, i))
    /\ PassesFilters(LineAt(lines, i))
    /\ SafeInt(LineAt(lines, i).wind) >= 50

\* ... and the line after it carries another timestamp
FirstMismatch ==
    /\ AtLookaheadRecord
    /\ i + 1 < Len(lines)
    /\ LineAt(lines, i + 1).nf > 2
    /\ LineAt(lines, i + 1).ts # LineAt(lines, i).ts

\* ... or its wind is > 64, the line after it gave r50, and the line after
\* that one carries another timestamp
SecondMismatch ==
    /\ AtLookaheadRecord
    /\ SafeInt(LineAt(lines, i).wind) > 64
    /\ i + 2 < Len(lines)
    /\ LineAt(lines, i + 1).nf > 2
    /\ LineAt(lines, i + 1).ts = LineAt(lines, i).ts
    /\ \A n \in DOMAIN RadSlice(LineAt(lines, i + 1)) :
          RadSlice(LineAt(lines, i + 1))[n].num
    /\ LineAt(lines, i + 2).nf > 2
    /\ LineAt(lines, i + 2).ts # LineAt(lines, i).ts

\* C2: at a timestamp mismatch the expected radii stay unset, no error is
\* raised, and the mismatched line is consumed and skipped: the reader goes
\* on with the line after the mismatched one, and the mismatched line has no
\* record of its own when the read returns.
C2_MismatchedLineSkipped ==
    /\ [][ /\ FirstMismatch =>
               /\ pc' = "reading" /\ exc' = "none"
               /\ idata'["r50"] = None
               /\ i' = i + 2
           /\ SecondMismatch =>
               /\ pc' = "reading" /\ exc' = "none"
               /\ idata'["r64"] = None
               /\ i' = i + 3 ]_vars
    /\ []((pc = "done" /\ asopened) =>
            \A n \in mismatched : n \notin Range(emitted))

\* C7: every Storm has its per-sample arrays of the same length (here: the
\* Storm that from_bdeck builds).
C7_EqualLengths ==
    storm # NoStorm =>
        LET n == Len(storm.time) IN
        /\ Len(storm.longitude) = n /\ Len(storm.latitude) = n
        /\ Len(storm.wind) = n
        /\ storm.pressure.some => Len(storm.pressure.v) = n
        /\ storm.storm_type.some => Len(storm.storm_type.v) = n
        /\ Len(storm.tropical_flag) = n /\ Len(storm.synoptic_flag) = n

\* C8: read_data fails only when the source is not opened (a usage error);
\* once it is opened no row makes it raise, and a malformed integer field is
\* recorded as -999 (read off the records of the read of a newly opened file).
C8_OnlyUnopenedReadRaises ==
    /\ pc = "raised" => (exc = "IOError" /\ ~opened)
    /\ (pc = "done" /\ asopened) =>
          \A n \in 1..Len(emitted) :
              ~LineAt(lines, emitted[n]).wind.num => data["wind"][n] = -999

\* The greatest and the smallest entry of a sequence of integers
MaxOf(a) == CHOOSE x \in Range(a) : \A y \in Range(a) : y <= x
MinOf(a) == CHOOSE x \in Range(a) : \A y \in Range(a) : x <= y

\* The entries of t at the places where w holds x, in order
RECURSIVE WhereEqual(_, _, _)
WhereEqual(t, w, x) ==
    IF w = <<>> THEN <<>>
    ELSE (IF Head(w) = x THEN <<Head(t)>> ELSE <<>>)
         \o WhereEqual(Tail(t), Tail(w), x)

\* C12: after a full read of a newly opened file that emitted records,
\* metadata.maxwind is the greatest wind of the records in data,
\* metadata.peaktime the timestamps, in
\* file order, of the records with that wind, metadata.minpres the smallest
\* pressure of the records that carry one, and metadata.fullcode the basin
\* code followed by the number padded to two digits.
C12_MetadataAgrees ==
    (pc = "done" /\ asopened /\ Column("wind") # <<>>) =>
        /\ metadata.maxwind = MaxOf(data["wind"])
        /\ metadata.peaktime =
              WhereEqual(data["time"], data["wind"], MaxOf(data["wind"]))
        /\ "pres" \in DOMAIN data => metadata.minpres = MinOf(data["pres"])
        /\ metadata.fullcode =
              data["basin"][Len(data["basin"])]
                  \o Format02d(data["number"][Len(data["number"])])

\* The category the claim derives from wind alone
CategoryOfWind(wind) ==
    CASE wind > 137 -> "C5"
      [] wind <= 137 /\ wind > 114 -> "C4"
      [] wind <= 114 /\ wind > 96 -> "C3"
      [] wind <= 96 /\ wind > 83 -> "C2"
      [] wind <= 83 /\ wind > 64 -> "C1"
      [] wind <= 64 /\ wind > 34 -> "TS"
      [] wind <= 34 -> "TD"

\* C13: the category of every record emitted by the read of a newly opened
\* file is the raw category code of its line, unless the line has no category
\* field, the field is empty, or the code is one of TY, HU, ST, MH: then it is
\* the category of the wind.
C13_CategoryOfRecords ==
    (pc = "done" /\ asopened) =>
        \A n \in 1..Len(emitted) :
            LET L == LineAt(lines, emitted[n]) IN
            data["category"][n] =
                IF L.nf <= 9 \/ L.cat \in {"", "TY", "HU", "ST", "MH"}
                THEN CategoryOfWind(data["wind"][n])
                ELSE L.cat

\* The fields only a long-format line sets
LongOnlyKeys == {"r34", "r50", "r64", "lci", "lci_radius", "rmw", "name", "depth"}

\* This step emits a record for a short-format line
EmitsShortRecord ==
    /\ Len(emitted') = Len(emitted) + 1
    /\ ~IsLongFormat(LineAt(lines, emitted'[Len(emitted')]))

\* C14: a record emitted for a short-format line has no value for a
\* long-format-only field, and no column of such a field gains an entry for it.
C14_ShortRecordsHaveNoLongFields ==
    [][EmitsShortRecord =>
          \A key \in LongOnlyKeys :
              key \notin DOMAIN idata' /\ Column(key)' = Column(key)]_vars

(***************************************************************************)
(* Properties of the Storm machine.                                        *)
(***************************************************************************)
\* Sample n of s counts for ACE: tropical type (every sample, when the Storm
\* has no type information), synoptic hour, wind of 35 kt or more
CountsForAce(s, n) ==
    /\ s.storm_type.some => s.storm_type.v[n] \in {"TD", "TS", "TY", "HU", "ST"}
    /\ s.time[n].hour \in {0, 6, 12, 18}
    /\ s.wind[n] >= 35

AceSamples(s) == {n \in 1..Len(s.wind) : CountsForAce(s, n)}

WindSquared(s) == [n \in 1..Len(s.wind) |-> s.wind[n] * s.wind[n]]

\* C4: daily_ace has a bucket for exactly the days of the samples that are
\* tropical, synoptic and of wind >= 35 kt; the entry of a bucket for a basin
\* is the sum of wind^2/10000 over those samples of that day that get_basin
\* places in that basin; total_ace is the sum over all those samples.
C4_DailyAceOfCountingSamples ==
    /\ "daily_ace" \in DOMAIN cache =>
          LET d == cache["daily_ace"] IN
          /\ DOMAIN d = {MjdDay(storm.mjd[n]) : n \in AceSamples(storm)}
          /\ \A day \in DOMAIN d : \A basin \in Basins :
                BasinGet(d[day], basin) =
                    SumOver(WindSquared(storm),
                            {n \in AceSamples(storm) :
                                /\ MjdDay(storm.mjd[n]) = day
                                /\ get_basin(storm.longitude[n],
                                             storm.latitude[n]) = basin})
    /\ "total_ace" \in DOMAIN cache =>
          cache["total_ace"] = SumOver(WindSquared(storm), AceSamples(storm))

\* C4 witness: daily_ace is computed for a Storm with two counting samples on
\* one day and in one basin, a 35 kt sample that counts, and samples of 35 kt
\* or more that do not count (one not synoptic, one not tropical).
C4_Witness ==
    /\ {"daily_ace", "total_ace"} \subseteq DOMAIN cache
    /\ \E n, m \in AceSamples(storm) :
          /\ n # m /\ MjdDay(storm.mjd[n]) = MjdDay(storm.mjd[m])
          /\ storm.longitude[n] = storm.longitude[m]
          /\ storm.wind[n] = 35
    /\ \E n \in 1..Len(storm.wind) :
          /\ storm.wind[n] >= 35 /\ storm.time[n].hour = 3
          /\ storm.storm_type.some /\ storm.storm_type.v[n] = "TS"

\* The season of the claim, from the basin code, the number, and the first
\* and last timestamp
SeasonOfClaim(basin, number, first, final) ==
    IF first.year = final.year
    THEN IF basin \in {<<"W", "P">>, <<"E", "P">>, <<"C", "P">>, <<"A", "L">>,
                       <<"I", "O">>}
         THEN first.year
         ELSE IF first.month >= 7 THEN first.year + 1 ELSE first.year
    ELSE IF (number % 60) < 3 THEN final.year ELSE first.year

\* C5: atcf_season is the season the claim gives for the Storm's basin code,
\* number, and first and last timestamp.
C5_AtcfSeason ==
    "atcf_season" \in DOMAIN cache =>
        cache["atcf_season"] =
            SeasonOfClaim(last.basin, last.number, storm.time[1],
                          storm.time[Len(storm.time)])

\* C5 witness: the season is computed for a Storm that crosses a year
\* boundary with number 62 (62 mod 60 < 3): it is the end year.
C5_Witness ==
    /\ "atcf_season" \in DOMAIN cache
    /\ last.number = 62
    /\ storm.time[1].year = 2019 /\ storm.time[Len(storm.time)].year = 2020
    /\ cache["atcf_season"] = 2020

(***************************************************************************)
(* Properties of the selection machine.                                    *)
(***************************************************************************)
\* The samples of the Storm under study are a run of consecutive samples of
\* the original Storm
ConsecutiveRun(idx) == \A n \in 1..(Len(idx) - 1) : idx[n + 1] = idx[n] + 1

\* C9: interp raises a usage error and returns no Storm whenever the Storm it
\* is called on, got from the original by sel_by_bbox calls, is not a run of
\* consecutive samples of the original, and whenever hour_interval <= 0.
C9_InterpRejectsDiscontinuity ==
    last.op = "interp" =>
        ((~ConsecutiveRun(origin) \/ last.hour_interval <= 0)
            => (last.exc = "ValueError" /\ last.returned = NoStorm))

\* A set of integers without a hole
NoHole(S) ==
    S # {} => \A x \in S : \A y \in S : \A z \in x..y : z \in S

\* C10: sel_by_bbox returns None iff no sample is inside; otherwise a Storm of
\* exactly the inside samples in their order, continuous iff the inside
\* indices are consecutive (after a gap the flag stays false, whatever
\* follows), subset iff fewer than all samples are inside; the Storm it was
\* called on (self, as it was before the call) is the same after the call
\* (source), arrays and flags.
C10_SelByBbox ==
    last.op = "sel_by_bbox" =>
        LET self == last.self
            r == last.returned
            idx == Ascending(last.inside)
            Sel(a) == [n \in 1..Len(idx) |-> a[idx[n] + 1]]
        IN
        /\ (r = NoStorm) <=> (last.inside = {})
        /\ r # NoStorm =>
              /\ r.time = Sel(self.time)
              /\ r.longitude = Sel(self.longitude)
              /\ r.latitude = Sel(self.latitude)
              /\ r.wind = Sel(self.wind)
              /\ r.mjd = Sel(self.mjd)
              /\ r.pressure.some = self.pressure.some
              /\ r.pressure.some => r.pressure.v = Sel(self.pressure.v)
              /\ r.storm_type.some = self.storm_type.some
              /\ r.storm_type.some => r.storm_type.v = Sel(self.storm_type.v)
              /\ r.flags.continuous <=> NoHole(last.inside)
              /\ r.flags.subset <=>
                    Cardinality(last.inside) < Len(self.longitude)
              /\ storm = r
        /\ source = self

\* C10 witness: out of a continuous Storm of four samples with pressure and
\* type, the first, the third and the fourth are selected: consecutive
\* indices follow the gap, and the result is discontinuous and a subset.
C10_Witness ==
    /\ last.op = "sel_by_bbox"
    /\ last.returned # NoStorm
    /\ last.inside = {0, 2, 3}
    /\ Len(last.self.longitude) = 4
    /\ last.self.flags.continuous /\ ~last.self.flags.subset
    /\ last.self.pressure.some /\ last.self.storm_type.some
    /\ ~last.returned.flags.continuous /\ last.returned.flags.subset
    /\ source = last.self

(***************************************************************************)
(* Properties of the overlap machine.                                      *)
(***************************************************************************)
\* The samples of s that count as tropical (all of them, when s has no type
\* information)
TropicalSamples(s) ==
    IF s.storm_type.some
    THEN {n \in 1..Len(s.time) : s.storm_type.v[n] \in {"TD", "TS", "TY", "HU", "ST"}}
    ELSE 1..Len(s.time)

\* The interval of s, in hours: from its first to its last sample (tropical
\* sample, in tropical mode)
IntervalOf(s, tropical) ==
    LET T == IF tropical THEN TropicalSamples(s) ELSE 1..Len(s.time)
        first == CHOOSE n \in T : \A m \in T : n <= m
        final == CHOOSE n \in T : \A m \in T : m <= n
    IN  [lo |-> s.mjd[first], hi |-> s.mjd[final]]

\* C3: overlapping_storm(year, tropical), for a season with stored storms,
\* returns in increasing time order exactly the spans between consecutive
\* distinct interval-boundary times during which at least two intervals are
\* active; each span has start < end and lists exactly the identifiers of the
\* storms whose interval contains the span; storms with no tropical sample
\* are excluded in tropical mode without shifting the identifiers of the
\* others.
C3_OverlapSpans ==
    (opc = "returned" /\ call.op = "overlapping_storm") =>
        LET S == season.season_dict[call.year]
            P == {j \in 1..Len(S) :
                     ~call.tropical \/ TropicalSamples(S[j]) # {}}
            I(j) == IntervalOf(S[j], call.tropical)
            B == {I(j).lo : j \in P} \cup {I(j).hi : j \in P}
            Containing(a, b) == {j \in P : I(j).lo <= a /\ b <= I(j).hi}
            Spans == {ab \in B \X B :
                         /\ ab[1] < ab[2]
                         /\ ~\E c \in B : ab[1] < c /\ c < ab[2]
                         /\ Cardinality(Containing(ab[1], ab[2])) >= 2}
            Hours(t) == datetime_to_mjd(t)
            r == result.v
        IN  /\ result.kind = "list"
            /\ {<<Hours(r[n].start), Hours(r[n].end)>> : n \in DOMAIN r} = Spans
            /\ \A n \in DOMAIN r :
                  LET within == Ascending(Containing(Hours(r[n].start),
                                                     Hours(r[n].end)))
                  IN  /\ Hours(r[n].start) < Hours(r[n].end)
                      /\ r[n].ids = [m \in DOMAIN within |->
                                        full_atcf_id(S[within[m]])]
            /\ \A n \in DOMAIN r : \A m \in DOMAIN r :
                  n < m => Hours(r[n].end) <= Hours(r[m].start)

\* C3 witness: a tropical-mode call on a season of three storms whose first
\* storm has no tropical sample returns a span with the identifiers of the
\* other two.
C3_Witness ==
    /\ opc = "returned" /\ call.op = "overlapping_storm" /\ call.tropical
    /\ Len(season.season_dict[call.year]) = 3
    /\ TropicalSamples(season.season_dict[call.year][1]) = {}
    /\ Len(result.v) >= 1
    /\ result.v[1].ids = <<full_atcf_id(season.season_dict[call.year][2]),
                           full_atcf_id(season.season_dict[call.year][3])>>

(***************************************************************************)
(* Properties of the season ACE machine.                                   *)
(***************************************************************************)
\* Days of the months before month m
DaysBeforeMonth(m, leap) ==
    LET len == <<31, IF leap THEN 29 ELSE 28, 31, 30, 31, 30, 31, 31, 30, 31, 30, 31>>
    IN  SumSeq(SubSeq(len, 1, m - 1))

\* The day of its calendar year the timestamp t falls on (Jan 1 is day 0)
DayOfYear(t) == DaysBeforeMonth(t.month, IsLeap(t.year)) + t.day - 1

\* The counting samples (storm j, sample n) the claim sums for
\* daily_ace(year, basin) of the dataset with storms `storms`: those dated in
\* `year`, of the storms whose season is year-1, year or year+1 (those
\* get_basin places in `basin`, when a basin is given)
ClaimedSamples(storms, year, basin) ==
    LET All == UNION {{<<j, n>> : n \in AceSamples(storms[j])} : j \in DOMAIN storms}
    IN  {jn \in All :
            /\ atcf_season(storms[jn[1]]) \in {year - 1, year, year + 1}
            /\ storms[jn[1]].time[jn[2]].year = year
            /\ basin # PyNone =>
                  get_basin(storms[jn[1]].longitude[jn[2]],
                            storms[jn[1]].latitude[jn[2]]) = basin}

\* r is the array the claim describes: 366 or 365 entries, entry d the sum of
\* wind^2 over the claimed samples dated day d of the year
IsClaimedArray(r, storms, year, basin) ==
    LET C == ClaimedSamples(storms, year, basin)
        On(d) == {jn \in C : DayOfYear(storms[jn[1]].time[jn[2]]) = d}
        Days == {DayOfYear(storms[jn[1]].time[jn[2]]) : jn \in C}
        W == [jn \in C |-> storms[jn[1]].wind[jn[2]] * storms[jn[1]].wind[jn[2]]]
    IN  /\ Len(r) = IF IsLeap(year) THEN 366 ELSE 365
        /\ \A d \in Days : d + 1 \in 1..Len(r) /\ r[d + 1] = SumOver(W, On(d))
        /\ \A d \in 1..Len(r) : (d - 1) \notin Days => r[d] = 0

\* C6 as stated: daily_ace(year, basin) returns the array of 366 or 365
\* entries whose entry d is the sum of the ACE of the day-buckets dated day d
\* of `year` of the storms of season year-1, year or year+1.
C6_DailyAceArray ==
    (opc = "returned" /\ call.op = "daily_ace" /\ ~call.push_leap_day) =>
        /\ result.kind = "array"
        /\ IsClaimedArray(result.v, season.storms, call.year, call.basin)

\* C6 amended: when some storm of the dataset has season year-1, year or
\* year+1, daily_ace(year, basin) returns that array; otherwise it returns a
\* ValueError object and no array.
C6_DailyAceArrayWhenScanned ==
    (opc = "returned" /\ call.op = "daily_ace" /\ ~call.push_leap_day) =>
        IF \E j \in DOMAIN season.storms :
              atcf_season(season.storms[j]) \in
                  {call.year - 1, call.year, call.year + 1}
        THEN /\ result.kind = "array"
             /\ IsClaimedArray(result.v, season.storms, call.year, call.basin)
        ELSE result.kind = "ValueError"

\* C6 witness: daily_ace(2020) over storms of seasons 2019, 2020 and 2021
\* returns 366 entries with ACE on Jan 1 (from the season 2019 storm), on
\* Jul 1 and on Dec 31 (from the storms of seasons 2020 and 2021 together).
C6_Witness ==
    /\ opc = "returned" /\ call.op = "daily_ace" /\ ~call.push_leap_day
    /\ call.year = 2020 /\ call.basin = PyNone
    /\ {atcf_season(season.storms[j]) : j \in DOMAIN season.storms}
           = {2019, 2020, 2021}
    /\ result.kind = "array" /\ Len(result.v) = 366
    /\ result.v[1] = 1225 /\ result.v[183] = 3600 /\ result.v[366] = 13600

\* The sum of the entries of the array a (its entries that are not 0)
ArraySum(a) == SumOver(a, {n \in DOMAIN a : a[n] # 0})

\* The fold of the claim: r is the unfolded array u without its Feb 29 slot,
\* the Feb 29 entry (index 59) added to the Mar 1 entry (index 60) at index 59
IsFoldOf(r, u) ==
    /\ Len(r) = 365
    /\ r[60] = u[60] + u[61]
    /\ \A n \in 1..59 : r[n] = u[n]
    /\ \A n \in 61..365 : r[n] = u[n + 1]
    /\ ArraySum(r) = ArraySum(u)

\* Some storm of the dataset has season year-1, year or year+1
SomeSeasonNear(year) ==
    \E j \in DOMAIN season.storms :
        atcf_season(season.storms[j]) \in {year - 1, year, year + 1}

\* The call returned what daily_ace(year, basin) without the flag returns
\* (the array of C6, or the ValueError object when no season is near)
SameAsUnfolded ==
    IF SomeSeasonNear(call.year)
    THEN /\ result.kind = "array" /\ result.v = ace
         /\ IsClaimedArray(ace, season.storms, call.year, call.basin)
    ELSE result.kind = "ValueError"

\* The call returned the fold of the array of C6
FoldedAsClaimed ==
    /\ result.kind = "array"
    /\ IsClaimedArray(ace, season.storms, call.year, call.basin)
    /\ IsFoldOf(result.v, ace)

\* C11 as stated: for every leap year and every dataset,
\* daily_ace(year, push_leap_day=True) has length 365, entry 59 the unfolded
\* entries 59 plus 60, entries 0..58 unchanged, entry k >= 60 the unfolded
\* entry k+1, the sum unchanged; for a non-leap year the flag changes nothing.
C11_LeapDayFold ==
    (opc = "returned" /\ call.op = "daily_ace" /\ call.push_leap_day) =>
        IF IsLeap(call.year) THEN FoldedAsClaimed ELSE SameAsUnfolded

\* C11 amended: the same for every leap year and every dataset in which some
\* storm has season year-1, year or year+1; for any other dataset the call
\* returns a ValueError object, with or without the flag.
C11_LeapDayFoldWhenScanned ==
    (opc = "returned" /\ call.op = "daily_ace" /\ call.push_leap_day) =>
        IF IsLeap(call.year) /\ SomeSeasonNear(call.year)
        THEN FoldedAsClaimed
        ELSE SameAsUnfolded

\* C11 witness: a folded call for 2020 with ACE on Feb 29 (1225) and on Mar 1
\* (10000), and ACE on Jul 1, which moves from index 182 to index 181.
C11_Witness ==
    /\ opc = "returned" /\ call.op = "daily_ace" /\ call.push_leap_day
    /\ call.year = 2020 /\ call.basin = PyNone
    /\ result.kind = "array" /\ Len(result.v) = 365 /\ Len(ace) = 366
    /\ ace[60] = 1225 /\ ace[61] = 10000 /\ result.v[60] = 11225
    /\ ace[183] = 3600 /\ result.v[182] = 3600

(***************************************************************************)
(* Properties of the MJD machine.                                          *)
(***************************************************************************)
\* The calendar day after the day of t, at the hour of t
NextDay(t) ==
    IF t.day < DaysInMonth(t.year, t.month) THEN [t EXCEPT !.day = @ + 1]
    ELSE IF t.month < 12 THEN [t EXCEPT !.month = @ + 1, !.day = 1]
    ELSE [t EXCEPT !.year = @ + 1, !.month = 1, !.day = 1]

\* The MJD of the day after t is the MJD of t plus exactly 1
NextDayIsOneApart ==
    DatetimeToMjdDouble(NextDay(call.t)) = [result.mjd EXCEPT !.day = @ + 1]

\* r is the calendar date of t at hour:minute:second.microsecond
IsAt(r, t, hour, minute, second, microsecond) ==
    r = [year |-> t.year, month |-> t.month, day |-> t.day, hour |-> hour,
         minute |-> minute, second |-> second, microsecond |-> microsecond]

\* C15 as stated: mjd_to_datetime(datetime_to_mjd(t)) is t, date and time, for
\* every timestamp t of whole hours, and the MJD of the next calendar day is
\* exactly 1 more.
C15_MjdRoundTrip ==
    (opc = "returned" /\ call.op = "datetime_to_mjd") =>
        /\ IsAt(result.v, call.t, call.t.hour, 0, 0, 0)
        /\ NextDayIsOneApart

\* C15 amended: the round trip gives the date of t; it gives the time of t
\* when the hour is a multiple of 3, and otherwise a time within 14
\* microseconds of it: 13 microseconds after the hour when hour % 3 = 2, and
\* 14 microseconds before it when hour % 3 = 1; the MJD of the next calendar
\* day is exactly 1 more.
C15_MjdRoundTripWithin14us ==
    (opc = "returned" /\ call.op = "datetime_to_mjd") =>
        /\ CASE call.t.hour % 3 = 0 ->
                   IsAt(result.v, call.t, call.t.hour, 0, 0, 0)
             [] call.t.hour % 3 = 2 ->
                   IsAt(result.v, call.t, call.t.hour, 0, 0, 13)
             [] call.t.hour % 3 = 1 ->
                   IsAt(result.v, call.t, call.t.hour - 1, 59, 59, 1000000 - 14)
        /\ NextDayIsOneApart

\* C15 witness: the round trip of 2020-02-29 01:00 gives 00:59:59.999986 of
\* that day.
C15_Witness ==
    /\ opc = "returned" /\ call.op = "datetime_to_mjd"
    /\ call.t = DT(2020, 2, 29, 1)
    /\ IsAt(result.v, call.t, 0, 59, 59, 999986)

(***************************************************************************)
(* Properties of Storm.from_bdeck, end to end.                             *)
(***************************************************************************)
\* The samples of the Storm built by from_bdeck that count for ACE on `day`
\* and are (west = TRUE) or are not (west = FALSE) northern-hemisphere samples
\* whose longitude field in the file has the W suffix; sample n is the record
\* of line emitted[n]
AceSamplesOn(day, west) ==
    {n \in AceSamples(storm) :
        /\ MjdDay(storm.mjd[n]) = day
        /\ west = (/\ LineAt(lines, emitted[n]).lon.hemi = "W"
                   /\ storm.latitude[n] >= 0)}

\* C16: in the daily_ace of a Storm built by from_bdeck (with arrays of equal
\* length), the ACE of the northern-hemisphere samples with a W longitude is
\* in the EPAC and ATL entries of their day, and the NIO and WPAC entries
\* hold ACE of the other samples only.
C16_WestLongitudeBasins ==
    (pc = "storm" /\ Len(storm.tropical_flag) = Len(storm.wind)) =>
        LET d == daily_ace(storm) IN
        \A day \in DOMAIN d :
            /\ d[day].epac + d[day].atl >=
                  SumOver(WindSquared(storm), AceSamplesOn(day, TRUE))
            /\ d[day].nio + d[day].wpac <=
                  SumOver(WindSquared(storm), AceSamplesOn(day, FALSE))

=============================================================================
